---- MODULE Spec2Model ----
(***************************************************************************)
(* A model of the dynamic field detection, fill and suggestion engine      *)
(* (python-bridge/enhanced_browser_automation.py) and of the task bridge   *)
(* (python-bridge/browser_use_bridge.py).                                  *)
(*                                                                         *)
(* Texts are TLA+ strings; substring search and lower-casing are computed  *)
(* character by character.  An absent attribute (JavaScript undefined,     *)
(* which the code produces with `x || undefined`) is the empty string: the *)
(* page scripts only test such values for truthiness.  What Python is      *)
(* handed for one is a choice of the caller actions (UndefinedAs).         *)
(*                                                                         *)
(* A value that an operation computes once and uses several times is       *)
(* passed on as the argument of an operator that holds the rest of the     *)
(* operation (AnalyzeWith, FillBest, FillNext, DetectOn, ...).             *)
(***************************************************************************)
EXTENDS Integers, Sequences, FiniteSets, TLC

VARIABLES
    page,             \* the DOM: the elements of the document, in document order
    overlays,         \* texts of the highlight boxes appended to document.body
    clock,            \* Date.now() as the page sees it
    detected_fields,  \* EnhancedBrowserAutomation.detected_fields
    lastPass,         \* history: the fields, with their elements, of the last completed pass
    prevPass,         \* history: the fields of the completed pass before that one
    scanPage,         \* history: the DOM as the last completed pass found it
    passes,           \* history: how every detection pass so far has ended, in order
    call,             \* history: the call on the engine that the page was last changed by
    events,           \* history: what the page observed during that call, in order
    data,             \* the data the caller holds for its fill and suggest calls
    probe,            \* an element under analysis: its attributes and context
    analysis,         \* the analyses of the probe: the last one and the one before
    task,             \* the task_data of the execute_task message
    agent,            \* where the agent run guarded by asyncio.wait_for stands
    elapsed,          \* seconds since asyncio.wait_for began
    responses,        \* the responses written to stdout, in order
    thrown,           \* history: the exception raised in execute_task, the deadline's apart
    stdin,            \* the lines of the input stream that run() has not read yet
    loop,             \* where run() stands: starting, reading, handling or stopped
    handled           \* history: the non-blank lines that run() has read, in order

vars == <<page, overlays, clock, detected_fields, lastPass, prevPass, scanPage, passes, call,
          events, data, probe, analysis, task, agent, elapsed, responses, thrown, stdin, loop,
          handled>>

engineVars ==
    <<page, overlays, clock, detected_fields, lastPass, prevPass, scanPage, passes, call, events,
      data>>
probeVars == <<probe, analysis>>
loopVars == <<stdin, loop, handled>>
bridgeVars == <<task, agent, elapsed, responses, thrown, loopVars>>

\* ------------------------------------------------------------------ bounds

MaxElems == 2
MaxPasses == 2

\* ----------------------------------------------------------------- strings

\* Python `p in s`, JavaScript s.includes(p), and a literal RegExp's test.
Contains(s, p) ==
    \E i \in 1..(Len(s) - Len(p) + 1) : SubSeq(s, i, i + Len(p) - 1) = p

\* the lower-case letter of each upper-case ASCII letter
LowerOf ==
    ("A" :> "a") @@ ("B" :> "b") @@ ("C" :> "c") @@ ("D" :> "d") @@ ("E" :> "e") @@ ("F" :> "f") @@
    ("G" :> "g") @@ ("H" :> "h") @@ ("I" :> "i") @@ ("J" :> "j") @@ ("K" :> "k") @@ ("L" :> "l") @@
    ("M" :> "m") @@ ("N" :> "n") @@ ("O" :> "o") @@ ("P" :> "p") @@ ("Q" :> "q") @@ ("R" :> "r") @@
    ("S" :> "s") @@ ("T" :> "t") @@ ("U" :> "u") @@ ("V" :> "v") @@ ("W" :> "w") @@ ("X" :> "x") @@
    ("Y" :> "y") @@ ("Z" :> "z")

UpperCase == DOMAIN LowerOf

LowerChar(c) == IF c \in UpperCase THEN LowerOf[c] ELSE c

\* String.prototype.toLowerCase / str.lower
RECURSIVE toLowerCase(_)
toLowerCase(s) ==
    IF Len(s) = 0 THEN ""
    ELSE IF Len(s) = 1 THEN LowerChar(s)
    ELSE toLowerCase(SubSeq(s, 1, Len(s) \div 2))
             \o toLowerCase(SubSeq(s, (Len(s) \div 2) + 1, Len(s)))

\* [..].filter(Boolean): drops undefined and empty strings
RECURSIVE filterBoolean(_)
filterBoolean(parts) ==
    IF parts = <<>> THEN <<>>
    ELSE IF Head(parts) = "" THEN filterBoolean(Tail(parts))
         ELSE <<Head(parts)>> \o filterBoolean(Tail(parts))

\* Array.prototype.join / str.join
RECURSIVE join(_, _)
join(parts, sep) ==
    IF parts = <<>> THEN ""
    ELSE IF Len(parts) = 1 THEN Head(parts)
         ELSE Head(parts) \o sep \o join(Tail(parts), sep)

\* --------------------------------------------------- DynamicFieldDetector

\* this.fieldSelectors, in declaration order.  An entry is the tag it asks
\* for, and the value of the type attribute it asks for ("" for none asked,
\* "-" for input:not([type])); the last entry asks for contenteditable only.
fieldSelectors ==
    << [tag |-> "input", type |-> "text"],   [tag |-> "input", type |-> "email"],
       [tag |-> "input", type |-> "password"], [tag |-> "input", type |-> "tel"],
       [tag |-> "input", type |-> "search"], [tag |-> "input", type |-> "url"],
       [tag |-> "input", type |-> "number"], [tag |-> "input", type |-> "date"],
       [tag |-> "input", type |-> "-"],
       [tag |-> "textarea", type |-> ""],    [tag |-> "select", type |-> ""],
       [tag |-> "*", type |-> ""] >>

\* document.querySelectorAll(selector) membership, for one attached element
Matches(sel, el) ==
    /\ el.attached
    /\ IF sel.tag = "*" THEN el.contenteditable = "true"
       ELSE /\ el.tagName = sel.tag
            /\ \/ sel.type = ""
               \/ sel.type = "-" /\ el.typeAttr = ""
               \/ sel.type # "-" /\ el.typeAttr = sel.type

\* this.semanticPatterns, in declaration order; each pattern is a literal
\* with the i flag and no g flag, so test() keeps no state between calls.
semanticPatterns ==
    << [semantic |-> "email",       patterns |-> <<"email", "e-mail", "mail">>],
       [semantic |-> "password",    patterns |-> <<"password", "pass", "pwd">>],
       [semantic |-> "name",        patterns |-> <<"name", "firstname", "lastname">>],
       [semantic |-> "departure",   patterns |-> <<"from", "departure", "origin", "depart">>],
       [semantic |-> "destination", patterns |-> <<"to", "destination", "arrival", "arrive">>],
       [semantic |-> "date",        patterns |-> <<"date", "when", "departure">>],
       [semantic |-> "phone",       patterns |-> <<"phone", "tel", "mobile">>],
       [semantic |-> "address",     patterns |-> <<"address", "street", "city">>] >>

\* /pattern/i.test(text) for a lower-case literal pattern, given the text
\* with its case folded: the i flag makes the match ignore the case
PatternTest(pattern, folded) == Contains(folded, pattern)

\* isVisible with its tests joined by "or": a variant that lets through an
\* element that passes any one of them.
isVisibleAnyOf(el) ==
    \/ el.width > 0 \/ el.height > 0
    \/ el.display # "none" \/ el.visibility # "hidden"

\* isVisible(element)
isVisible(el) ==
    /\ el.width > 0 /\ el.height > 0
    /\ el.display # "none" /\ el.visibility # "hidden"

\* element.type: the type property of the element, undefined for an element
\* that has none
TypeProperty(el) ==
    IF el.tagName = "input" THEN (IF el.typeAttr = "" THEN "text" ELSE el.typeAttr)
    ELSE IF el.tagName = "textarea" THEN "textarea"
    ELSE IF el.tagName = "select" THEN "select-one"
    ELSE ""

\* extractAttributes(element)
extractAttributes(el) ==
    [ name        |-> el.name,
      id          |-> el.id,
      type        |-> IF TypeProperty(el) # "" THEN TypeProperty(el) ELSE el.tagName,
      placeholder |-> el.placeholder,
      className   |-> el.className ]

\* findLabel(element): the text of the label the DOM associates with the
\* element (label[for=id], else the closest ancestor label), trimmed
findLabel(el) == el.labelText

\* The texts the highlight boxes contribute to parent.querySelectorAll('*')
\* when parent is document.body: each box is a div holding one div whose
\* text is the semantic, so each box is met twice with non-empty text.
RECURSIVE OverlayTexts(_)
OverlayTexts(boxes) ==
    IF boxes = <<>> THEN <<>>
    ELSE <<Head(boxes), Head(boxes)>> \o OverlayTexts(Tail(boxes))

\* getNearbyText(element): the trimmed non-empty texts of the other
\* descendants of the element's parent, in document order.  The highlight
\* boxes are children of document.body, after the page's own content.
getNearbyText(el, boxes) ==
    IF el.parent = "body" THEN el.siblingText \o OverlayTexts(boxes)
    ELSE el.siblingText

\* analyzeContext(element)
analyzeContext(el, boxes) ==
    [ label |-> findLabel(el), nearbyText |-> getNearbyText(el, boxes) ]

\* A searchText that keeps only the label when there is one: a variant in
\* which an added label hides the other texts from the classifier.
searchTextLabelOnly(attributes, context) ==
    IF context.label # "" THEN toLowerCase(context.label)
    ELSE toLowerCase(join(filterBoolean(
             <<attributes.name, attributes.id, attributes.placeholder>>
                 \o context.nearbyText), " "))

\* the searchText of inferPurpose
searchText(attributes, context) ==
    toLowerCase(join(filterBoolean(
        <<attributes.name, attributes.id, attributes.placeholder, context.label>>
            \o context.nearbyText), " "))

AnyPatternMatches(entry, folded) ==
    \E p \in 1..Len(entry.patterns) : PatternTest(entry.patterns[p], folded)

\* The loop of inferPurpose going on after a match and keeping the last
\* category that matches: a variant that prefers the later category.
RECURSIVE LastCategory(_, _)
LastCategory(c, folded) ==
    IF c > Len(semanticPatterns) THEN "unknown"
    ELSE IF LastCategory(c + 1, folded) # "unknown" THEN LastCategory(c + 1, folded)
         ELSE IF AnyPatternMatches(semanticPatterns[c], folded)
              THEN semanticPatterns[c].semantic
              ELSE "unknown"

\* The loops of inferPurpose over Object.entries(this.semanticPatterns),
\* from category c on: the first category one of whose patterns matches,
\* else unknown.
RECURSIVE FirstCategory(_, _)
FirstCategory(c, folded) ==
    IF c > Len(semanticPatterns) THEN "unknown"
    ELSE IF AnyPatternMatches(semanticPatterns[c], folded) THEN semanticPatterns[c].semantic
         ELSE FirstCategory(c + 1, folded)

\* inferPurpose(element, attributes, context)
inferPurpose(attributes, context) ==
    FirstCategory(1, toLowerCase(searchText(attributes, context)))

BaseScore == 50
LabelBonus == 20
PlaceholderBonus == 15
SemanticBonus == 15
MaxScore == 100

Min(a, b) == IF a <= b THEN a ELSE b

\* calculateScore without Math.min and with a label bonus of 25: a variant
\* whose sum leaves the range.
calculateScoreUnclamped(attributes, context, semantic) ==
    BaseScore
    + (IF context.label # "" THEN LabelBonus + 5 ELSE 0)
    + (IF attributes.placeholder # "" THEN PlaceholderBonus ELSE 0)
    + (IF semantic # "unknown" THEN SemanticBonus ELSE 0)

\* calculateScore without its `if (semantic !== 'unknown')` line: a variant
\* that gives nothing for a known category.
calculateScoreNoSemantic(attributes, context, semantic) ==
    Min(MaxScore,
        BaseScore
        + (IF context.label # "" THEN LabelBonus ELSE 0)
        + (IF attributes.placeholder # "" THEN PlaceholderBonus ELSE 0))

\* calculateScore(attributes, context, semantic)
calculateScore(attributes, context, semantic) ==
    Min(MaxScore,
        BaseScore
        + (IF context.label # "" THEN LabelBonus ELSE 0)
        + (IF attributes.placeholder # "" THEN PlaceholderBonus ELSE 0)
        + (IF semantic # "unknown" THEN SemanticBonus ELSE 0))

\* The object that analyzeField returns, from the values it has computed.
FieldObject(id, handle, rect, attributes, context, semantic) ==
    [ id         |-> id,
      element    |-> handle,
      rect       |-> rect,
      attributes |-> attributes,
      context    |-> context,
      semantic   |-> semantic,
      score      |-> calculateScore(attributes, context, semantic),
      visible    |-> TRUE ]

\* analyzeField from the point where attributes and context are known
AnalyzeWith(id, handle, rect, attributes, context) ==
    FieldObject(id, handle, rect, attributes, context, inferPurpose(attributes, context))

\* analyzeField(element, order): `handle` is the element the field refers to
\* (its index in the document), `now` the value of Date.now()
analyzeField(el, handle, order, now, boxes) ==
    AnalyzeWith(<<"field", order, now>>, handle,
                [x |-> el.x, y |-> el.y, width |-> el.width, height |-> el.height],
                extractAttributes(el), analyzeContext(el, boxes))

\* A sort that puts a field before the fields of equal score already placed:
\* a variant that is not stable.
RECURSIVE InsertByScoreUnstable(_, _)
InsertByScoreUnstable(sorted, f) ==
    IF sorted = <<>> THEN <<f>>
    ELSE IF Head(sorted).score - f.score <= 0 THEN <<f>> \o sorted
         ELSE <<Head(sorted)>> \o InsertByScoreUnstable(Tail(sorted), f)

\* Array.prototype.sort with the comparator (a, b) => b.score - a.score:
\* the sort is stable (ECMAScript 2019), so a field goes after every field
\* already placed whose score is not lower.
RECURSIVE InsertByScore(_, _)
InsertByScore(sorted, f) ==
    IF sorted = <<>> THEN <<f>>
    ELSE IF Head(sorted).score - f.score < 0 THEN <<f>> \o sorted
         ELSE <<Head(sorted)>> \o InsertByScore(Tail(sorted), f)

RECURSIVE SortByScore(_, _)
SortByScore(fields, n) ==
    IF n = 0 THEN <<>> ELSE InsertByScore(SortByScore(fields, n - 1), fields[n])

\* rankFields(fields)
rankFields(fields) == SortByScore(fields, Len(fields))

\* The loops of detectAllFields: selectors in list order, and for each the
\* matching elements in document order; step n is selector (n-1) \div Len(pg) + 1
\* on element (n-1) % Len(pg) + 1.  counter is the number of fields pushed.
RECURSIVE ScanFrom(_, _, _, _, _)
ScanFrom(pg, boxes, now, n, fields) ==
    IF n > Len(fieldSelectors) * Len(pg) THEN fields
    ELSE LET s == ((n - 1) \div Len(pg)) + 1
             i == ((n - 1) % Len(pg)) + 1
         IN  IF Matches(fieldSelectors[s], pg[i]) /\ isVisible(pg[i])
             THEN ScanFrom(pg, boxes, now, n + 1,
                           Append(fields, analyzeField(pg[i], i, Len(fields), now, boxes)))
             ELSE ScanFrom(pg, boxes, now, n + 1, fields)

\* detectAllFields()
detectAllFields(pg, boxes, now) == rankFields(ScanFrom(pg, boxes, now, 1, <<>>))

\* highlightFields(fields): removeAllHighlights() works on the map of the
\* FieldHighlighter just constructed, which is empty, so the boxes of an
\* earlier pass stay; one box is appended to document.body per field.
highlightFields(boxes, fields) ==
    boxes \o [k \in 1..Len(fields) |-> fields[k].semantic]

\* The serializable field data the page hands back: the field without its
\* element handle and its visible flag.
SerializeField(f) ==
    [ id |-> f.id, semantic |-> f.semantic, score |-> f.score,
      attributes |-> f.attributes, context |-> f.context, rect |-> f.rect ]

SerializeFields(fields) == [k \in 1..Len(fields) |-> SerializeField(fields[k])]

\* ------------------------------------------------------------ the page

BaseElement ==
    [ tagName |-> "input", typeAttr |-> "text", contenteditable |-> "",
      id |-> "", name |-> "", placeholder |-> "", className |-> "",
      labelText |-> "", siblingText |-> <<>>, parent |-> "form",
      x |-> 0, y |-> 0, width |-> 120, height |-> 20,
      display |-> "inline-block", visibility |-> "visible",
      attached |-> TRUE, value |-> "" ]

DepartureLabelled ==
    [BaseElement EXCEPT !.id = "dep", !.placeholder = "From city", !.labelText = "Departure"]
DepartureBare ==
    [BaseElement EXCEPT !.id = "dep", !.placeholder = "From city"]
QueryInBody ==
    [BaseElement EXCEPT !.typeAttr = "", !.name = "q", !.siblingText = <<"random">>,
                        !.parent = "body"]
EmailArea ==
    [BaseElement EXCEPT !.tagName = "textarea", !.typeAttr = "", !.name = "email"]
EditableTo ==
    [BaseElement EXCEPT !.contenteditable = "true", !.placeholder = "Where to"]
DateNoHandle ==
    [BaseElement EXCEPT !.typeAttr = "date", !.labelText = "Departure date"]
SelectBare ==
    [BaseElement EXCEPT !.tagName = "select", !.typeAttr = ""]
DisplayNone ==
    [DepartureBare EXCEPT !.display = "none"]
ZeroWidth ==
    [EditableTo EXCEPT !.width = 0]
ZeroHeight ==
    [SelectBare EXCEPT !.height = 0]
Hidden ==
    [EmailArea EXCEPT !.visibility = "hidden"]

ElementPool ==
    { DepartureLabelled, QueryInBody, EditableTo, SelectBare,
      DisplayNone, ZeroWidth, ZeroHeight, Hidden }

\* The text of a label or of a neighbour, wherever it stands in the
\* document, is text under document.body, and so nearby text of every element
\* whose parent is document.body: such an element shares a page only with
\* elements that bring no text, or the same text under document.body.
Consistent(pg) ==
    \A i \in 1..Len(pg) : \A j \in 1..Len(pg) :
        (i # j /\ pg[i].parent = "body") =>
            /\ pg[j].labelText = ""
            /\ \/ pg[j].siblingText = <<>>
               \/ pg[j].parent = "body" /\ pg[j].siblingText = pg[i].siblingText

\* The pages of the sessions that only detect: elements of the pool.
Pages == { pg \in UNION { [1..n -> ElementPool] : n \in 0..MaxElems } : Consistent(pg) }

FormPool == { DepartureBare, EditableTo, DateNoHandle }

DepartureFull ==
    [BaseElement EXCEPT !.id = "dep", !.name = "from", !.placeholder = "From city"]
DepartureNamed ==
    [BaseElement EXCEPT !.name = "from", !.placeholder = "From city"]
DeparturePlaceholder ==
    [BaseElement EXCEPT !.placeholder = "From city"]

\* The pages of the sessions in which elements leave the document between
\* fills: elements that share a name or a placeholder, and one without id,
\* name and placeholder.
SharedPool == { DepartureFull, DepartureNamed, DeparturePlaceholder, DateNoHandle }
SharedPages == UNION { [1..n -> SharedPool] : n \in 0..MaxElems }

DepartureHidden ==
    [DepartureFull EXCEPT !.display = "none"]
DepartureNamedLabelled ==
    [DepartureNamed EXCEPT !.labelText = "Departure"]

\* The pages of the sessions that fill forms whose elements share an id,
\* a name or a placeholder: one of them invisible, one with a label.
SamePool == { DepartureHidden, DepartureFull, DepartureNamedLabelled }
SamePages == UNION { [1..n -> SamePool] : n \in 0..MaxElems }

EditableFrom ==
    [BaseElement EXCEPT !.contenteditable = "true", !.placeholder = "From city"]
EditableFromLabelled ==
    [EditableFrom EXCEPT !.labelText = "Departure"]

\* The pages of the sessions that only ask for suggestions: departure
\* fields of different scores, two of them found by two selectors each.
SuggestPool == { EditableFrom, EditableFromLabelled, DepartureBare }
SuggestPages == UNION { [1..n -> SuggestPool] : n \in 0..MaxElems }

\* The pages of the sessions that fill and suggest.
FormPages == UNION { [1..n -> FormPool] : n \in 0..MaxElems }

\* The pages of the search_flights sessions: forms of at most MaxElems of the
\* three flight fields, each at most once and in the order of the form.
FlightForm == << DepartureBare, EditableTo, DateNoHandle >>
FlightPages ==
    { SelectSeq(FlightForm, LAMBDA e : \E i \in S : FlightForm[i] = e) :
          S \in { T \in SUBSET (1..Len(FlightForm)) : Cardinality(T) <= MaxElems } }

\* ---------------------------------------------------------------- engine

\* How a call into the page (add_script_tag, evaluate) can end: normally
\* ("none"); with an exception raised before the page script has run
\* ("inject" for add_script_tag, "evaluate" for evaluate: a closed page, a
\* missing script); or with an exception raised after the page script has
\* run, its answer lost ("lost": the execution context is destroyed, for
\* instance by a navigation that the script itself set off).
FaultKinds == {"none", "inject", "evaluate", "lost"}
WriteFaults == {"none", "evaluate", "lost"}

\* How one detection pass ended, for the history: "completed" or "failed",
\* what it returned, and whether a fill or a suggestion call set it off.
PassRecord(outcome, returned) == [outcome |-> outcome, returned |-> returned, lazy |-> FALSE]

\* detect_and_highlight_fields without its try/except: a variant in which
\* the exception of the page call leaves the method.
DetectionFailureRaises(cache, boxes, last, prev, scanned) ==
    [ detected_fields |-> cache, overlays |-> boxes, lastPass |-> last,
      prevPass |-> prev, scanPage |-> scanned, returned |-> <<>>, raised |-> TRUE,
      pass |-> <<PassRecord("failed", <<>>)>> ]

\* A failed pass that assigns its empty result to self.detected_fields: a
\* variant in which a failure empties the cached list.
DetectionFailureClears(cache, boxes, last, prev, scanned) ==
    [ detected_fields |-> <<>>, overlays |-> boxes, lastPass |-> last,
      prevPass |-> prev, scanPage |-> scanned, returned |-> <<>>, raised |-> FALSE,
      pass |-> <<PassRecord("failed", <<>>)>> ]

\* The `except Exception` of detect_and_highlight_fields: the exception is
\* logged and [] returned, with self.detected_fields left alone.
DetectionFailed(cache, boxes, last, prev, scanned) ==
    [ detected_fields |-> cache, overlays |-> boxes, lastPass |-> last,
      prevPass |-> prev, scanPage |-> scanned, returned |-> <<>>, raised |-> FALSE,
      pass |-> <<PassRecord("failed", <<>>)>> ]

\* The engine and the page as detect_and_highlight_fields(page) leaves them,
\* what it returns and whether an exception leaves it; `fields` is what
\* detectAllFields() finds on the page.  The highlight boxes are drawn by
\* the page script, after the scan.
detect_and_highlight_fields(fields, pg, boxes, cache, last, prev, scanned, fault) ==
    IF fault \in {"inject", "evaluate"}
    THEN DetectionFailed(cache, boxes, last, prev, scanned)
    ELSE IF fault = "lost"
    THEN DetectionFailed(cache, highlightFields(boxes, fields), last, prev, scanned)
    ELSE [ detected_fields |-> SerializeFields(fields),
           overlays |-> highlightFields(boxes, fields),
           lastPass |-> fields, prevPass |-> last, scanPage |-> pg,
           returned |-> SerializeFields(fields), raised |-> FALSE,
           pass |-> <<PassRecord("completed", SerializeFields(fields))>> ]

\* the pass that a fill or a suggestion call set off, ended as d
LazyPass(d) ==
    [d EXCEPT !.pass = [k \in 1..Len(d.pass) |-> [d.pass[k] EXCEPT !.lazy = TRUE]]]

\* `if not self.detected_fields: await self.detect_and_highlight_fields(page)`
LazyDetect(fields, pg, boxes, cache, last, prev, scanned, fault) ==
    IF cache = <<>>
    THEN LazyPass(detect_and_highlight_fields(fields, pg, boxes, cache, last, prev, scanned,
                                              fault))
    ELSE [ detected_fields |-> cache, overlays |-> boxes, lastPass |-> last,
           prevPass |-> prev, scanPage |-> scanned, returned |-> <<>>, raised |-> FALSE,
           pass |-> <<>> ]

\* document.getElementById / document.querySelector('[attr="text"]'): the
\* first attached element, in document order, with that attribute value;
\* 0 stands for null.
FirstWith(pg, attr, text) ==
    LET found == { i \in 1..Len(pg) : pg[i].attached /\ pg[i][attr] = text }
    IN  IF found = {} THEN 0 ELSE CHOOSE i \in found : \A j \in found : i <= j

\* The element lookup with `else if` between its strategies: a variant that
\* tries a later attribute only when the field lacks the earlier ones, not
\* when their lookup finds nothing.
ResolveElementNoFallback(pg, attributes) ==
    IF attributes.id # "" THEN FirstWith(pg, "id", attributes.id)
    ELSE IF attributes.name # "" THEN FirstWith(pg, "name", attributes.name)
    ELSE IF attributes.placeholder # "" THEN FirstWith(pg, "placeholder", attributes.placeholder)
    ELSE 0

\* The element lookup of the page script of fill_field_by_semantic_type:
\* by id, then by name, then by placeholder.
ResolveElement(pg, attributes) ==
    LET byId   == IF attributes.id # "" THEN FirstWith(pg, "id", attributes.id) ELSE 0
        byName == IF byId = 0 /\ attributes.name # ""
                  THEN FirstWith(pg, "name", attributes.name) ELSE byId
    IN  IF byName = 0 /\ attributes.placeholder # ""
        THEN FirstWith(pg, "placeholder", attributes.placeholder) ELSE byName

\* max() keeping the last of the fields with the highest score: a variant
\* that breaks ties the other way.
LastMaxByScore(fields) ==
    fields[CHOOSE i \in 1..Len(fields) :
              /\ \A j \in 1..Len(fields) : fields[j].score <= fields[i].score
              /\ \A j \in (i + 1)..Len(fields) : fields[j].score < fields[i].score]

\* max(matching_fields, key=lambda x: x['score']): the first of the fields
\* with the highest score
MaxByScore(fields) ==
    fields[CHOOSE i \in 1..Len(fields) :
              /\ \A j \in 1..Len(fields) : fields[j].score <= fields[i].score
              /\ \A j \in 1..(i - 1) : fields[j].score < fields[i].score]

\* matching_fields with a fallback that also takes the fields whose
\* semantic is contained in the key: a variant that matches in either
\* direction.
MatchingFieldsEitherWay(fields, semantic_type) ==
    LET exact == SelectSeq(fields, LAMBDA f : f.semantic = semantic_type)
    IN  IF exact # <<>> THEN exact
        ELSE SelectSeq(fields, LAMBDA f :
                 \/ Contains(toLowerCase(f.semantic), toLowerCase(semantic_type))
                 \/ Contains(toLowerCase(semantic_type), toLowerCase(f.semantic)))

\* The matching_fields of fill_field_by_semantic_type: the fields whose
\* semantic equals the key, or when there is none, those whose lower-cased
\* semantic contains the lower-cased key.
MatchingFields(fields, semantic_type) ==
    LET exact == SelectSeq(fields, LAMBDA f : f.semantic = semantic_type)
    IN  IF exact # <<>> THEN exact
        ELSE SelectSeq(fields, LAMBDA f :
                 Contains(toLowerCase(f.semantic), toLowerCase(semantic_type)))

\* What the page observes of one step of the fill script.
Observed(type, element, key, value) ==
    [type |-> type, element |-> element, key |-> key, value |-> value]

\* The page.evaluate call without the try/except around it: a variant in
\* which an exception of the page call leaves the method.
EvaluateFillUncaught(pg, best_field, key, value, fault) ==
    LET element == ResolveElement(pg, best_field.attributes)
    IN  IF fault = "evaluate"
        THEN [ success |-> FALSE, raised |-> TRUE, page |-> pg, events |-> <<>> ]
        ELSE IF element = 0
        THEN [ success |-> FALSE, raised |-> FALSE, page |-> pg, events |-> <<>> ]
        ELSE [ success |-> (fault = "none"), raised |-> (fault = "lost"),
               page    |-> [pg EXCEPT ![element].value = value],
               events  |-> << Observed("focus", element, key, value),
                              Observed("assign", element, key, value),
                              Observed("input", element, key, value),
                              Observed("change", element, key, value) >> ]

\* The page script dispatching change before input: a variant with the two
\* events in the wrong order.
EvaluateFillChangeFirst(pg, best_field, key, value, fault) ==
    LET element == ResolveElement(pg, best_field.attributes)
    IN  IF fault = "evaluate" \/ element = 0
        THEN [ success |-> FALSE, raised |-> FALSE, page |-> pg, events |-> <<>> ]
        ELSE [ success |-> (fault = "none"), raised |-> FALSE,
               page    |-> [pg EXCEPT ![element].value = value],
               events  |-> << Observed("focus", element, key, value),
                              Observed("assign", element, key, value),
                              Observed("change", element, key, value),
                              Observed("input", element, key, value) >> ]

\* The page.evaluate call of fill_field_by_semantic_type inside its
\* try/except: what the method returns, whether an exception leaves it, the
\* page afterwards and what the page observed.
EvaluateFill(pg, best_field, key, value, fault) ==
    LET element == ResolveElement(pg, best_field.attributes)
    IN  IF fault = "evaluate" \/ element = 0
        THEN [ success |-> FALSE, raised |-> FALSE, page |-> pg, events |-> <<>> ]
        ELSE [ success |-> (fault = "none"), raised |-> FALSE,
               page    |-> [pg EXCEPT ![element].value = value],
               events  |-> << Observed("focus", element, key, value),
                              Observed("assign", element, key, value),
                              Observed("input", element, key, value),
                              Observed("change", element, key, value) >> ]

\* fill_field_by_semantic_type without its `if not matching_fields` return:
\* a variant in which max() of the empty list raises ValueError.
NoMatchRaises(pg) ==
    [ success |-> FALSE, raised |-> TRUE, page |-> pg, events |-> <<>> ]

\* What fill_field_by_semantic_type does when matching_fields is empty.
NoMatchingField(pg) ==
    [ success |-> FALSE, raised |-> FALSE, page |-> pg, events |-> <<>> ]

\* fill_field_by_semantic_type from the point where matching_fields is known
FillBest(matching_fields, pg, semantic_type, value, fault) ==
    IF matching_fields = <<>>
    THEN NoMatchingField(pg)
    ELSE EvaluateFill(pg, MaxByScore(matching_fields), semantic_type, value, fault)

\* fill_field_by_semantic_type(page, semantic_type, value)
fill_field_by_semantic_type(pg, fields, semantic_type, value, fault) ==
    FillBest(MatchingFields(fields, semantic_type), pg, semantic_type, value, fault)

\* The loop of smart_field_fill over field_data.items(), from item j on: an
\* exception that leaves fill_field_by_semantic_type leaves smart_field_fill
\* too, with no result.  FillNext is the body of the loop once the call for
\* item j has ended as `one`.
RECURSIVE FillLoop(_, _, _, _, _, _, _)
RECURSIVE FillNext(_, _, _, _, _, _, _)
FillLoop(pg, fields, field_data, faults, j, results, seen) ==
    IF j > Len(field_data)
    THEN [ page |-> pg, results |-> results, events |-> seen, raised |-> FALSE ]
    ELSE FillNext(fill_field_by_semantic_type(
                      pg, fields, field_data[j].key, field_data[j].value, faults[j]),
                  fields, field_data, faults, j, results, seen)

FillNext(one, fields, field_data, faults, j, results, seen) ==
    IF one.raised
    THEN [ page |-> one.page, results |-> results,
           events |-> seen \o one.events, raised |-> TRUE ]
    ELSE FillLoop(one.page, fields, field_data, faults, j + 1,
                  Append(results, [key |-> field_data[j].key, success |-> one.success]),
                  seen \o one.events)

\* A Python float that lies at, or one rounding error away from, a multiple
\* of 0.001, as an integer that orders as the floats do: four units per
\* thousandth, plus the sign of the rounding error.
Float(thousandths, error) == 4 * thousandths + error

\* a + b in IEEE 754 double arithmetic, on the values that
\* calculate_mapping_confidence adds: exact on all of them but
\* 0.65 + 0.2 = 0.8500000000000001 and 0.7 + 0.2 = 0.8999999999999999.
FloatAdd(a, b) ==
    IF a = Float(650, 0) /\ b = Float(200, 0) THEN Float(850, 1)
    ELSE IF a = Float(700, 0) /\ b = Float(200, 0) THEN Float(900, -1)
    ELSE a + b

\* The context_text of calculate_mapping_confidence.
ContextText(field) ==
    toLowerCase(field.context.label \o " " \o join(field.context.nearbyText, " ")
                    \o " " \o field.attributes.placeholder)

\* calculate_mapping_confidence with the 0.3 bonus given in either
\* direction: a variant that also rewards a key that contains the semantic.
calculate_mapping_confidenceEitherWay(data_key, field) ==
    LET base_score     == Float(10 * field.score, 0)
        semantic_bonus == IF toLowerCase(data_key) = toLowerCase(field.semantic)
                          THEN Float(500, 0)
                          ELSE IF \/ Contains(toLowerCase(field.semantic), toLowerCase(data_key))
                                  \/ Contains(toLowerCase(data_key), toLowerCase(field.semantic))
                               THEN Float(300, 0) ELSE Float(0, 0)
        context_bonus  == IF Contains(ContextText(field), toLowerCase(data_key))
                          THEN Float(200, 0) ELSE Float(0, 0)
    IN  Min(Float(1000, 0), FloatAdd(FloatAdd(base_score, semantic_bonus), context_bonus))

\* calculate_mapping_confidence(data_key, field)
calculate_mapping_confidence(data_key, field) ==
    LET base_score     == Float(10 * field.score, 0)
        semantic_bonus == IF toLowerCase(data_key) = toLowerCase(field.semantic)
                          THEN Float(500, 0)
                          ELSE IF Contains(toLowerCase(field.semantic), toLowerCase(data_key))
                               THEN Float(300, 0) ELSE Float(0, 0)
        context_bonus  == IF Contains(ContextText(field), toLowerCase(data_key))
                          THEN Float(200, 0) ELSE Float(0, 0)
    IN  Min(Float(1000, 0), FloatAdd(FloatAdd(base_score, semantic_bonus), context_bonus))

\* `if confidence > 0.3`
AboveThreshold(confidence) == confidence > Float(300, 0)

\* A sort that is not stable: a variant in which an entry goes before the
\* entries already placed that have its confidence.
RECURSIVE InsertBeforeEqualConfidence(_, _)
InsertBeforeEqualConfidence(sorted, s) ==
    IF sorted = <<>> THEN <<s>>
    ELSE IF Head(sorted).confidence <= s.confidence THEN <<s>> \o sorted
         ELSE <<Head(sorted)>> \o InsertBeforeEqualConfidence(Tail(sorted), s)

\* list.sort(key=confidence, reverse=True): stable, so an entry goes after
\* every entry already placed whose confidence is not lower.
RECURSIVE InsertByConfidence(_, _)
InsertByConfidence(sorted, s) ==
    IF sorted = <<>> THEN <<s>>
    ELSE IF Head(sorted).confidence < s.confidence THEN <<s>> \o sorted
         ELSE <<Head(sorted)>> \o InsertByConfidence(Tail(sorted), s)

RECURSIVE SortByConfidence(_, _)
SortByConfidence(entries, n) ==
    IF n = 0 THEN <<>>
    ELSE InsertByConfidence(SortByConfidence(entries, n - 1), entries[n])

\* The suggestions without the [:3] slice: a variant that keeps them all.
KeepAll(entries) == entries

\* field_suggestions[:3]
TopThree(entries) == SubSeq(entries, 1, Min(3, Len(entries)))

\* field_suggestions.sort(...) and the slice
SortedTop(field_suggestions) ==
    TopThree(SortByConfidence(field_suggestions, Len(field_suggestions)))

\* the entries of field_suggestions, from the fields with their confidences
KeepAboveThreshold(scored) ==
    SortedTop(SelectSeq(scored, LAMBDA s : AboveThreshold(s.confidence)))

\* The body of the loop of get_field_suggestions for one data key.
SuggestionsFor(fields, data_key) ==
    KeepAboveThreshold(
        [k \in 1..Len(fields) |->
            [ field |-> fields[k],
              confidence |-> calculate_mapping_confidence(data_key, fields[k]) ]])

\* How the browser driver hands a property whose value is undefined to
\* Python: without the key ("absent"), or with the value None ("None").
UndefinedAs == {"absent", "None"}

\* field['context'].get('label', '') + ' ' + ... + field['attributes'].get(
\* 'placeholder', ''): with None for a missing label or placeholder the
\* concatenation raises TypeError, which nothing in the engine catches.
ContextTextRaises(field, undefinedAs) ==
    undefinedAs = "None" /\ (field.context.label = "" \/ field.attributes.placeholder = "")

\* The loops of get_field_suggestions over user_data.items() and over
\* self.detected_fields.
get_field_suggestions(fields, user_data, undefinedAs) ==
    IF user_data # <<>> /\ \E k \in 1..Len(fields) : ContextTextRaises(fields[k], undefinedAs)
    THEN [ suggestions |-> <<>>, raised |-> TRUE ]
    ELSE [ suggestions |-> [j \in 1..Len(user_data) |->
                               [ key |-> user_data[j].key,
                                 suggestions |-> SuggestionsFor(fields, user_data[j].key) ]],
           raised |-> FALSE ]

\* ------------------------------------------------------------- the caller

Item(k, v) == [key |-> k, value |-> v]

\* The data the caller hands to smart_field_fill and get_field_suggestions:
\* a dict, its items in insertion order.
DataMappings ==
    { <<>>,
      <<Item("departure_city", "x"), Item("departure", "LAX")>>,
      <<Item("depart", "LA"), Item("destination", "JFK")>>,
      <<Item("Destination", "JFK")>> }

\* The data of the sessions that only ask for suggestions.
SuggestData ==
    { <<Item("departure", "LAX")>>,
      <<Item("from", "LAX"), Item("city", "LA")>> }

NoCall == [op |-> "none", ret |-> <<>>, raised |-> FALSE, pass |-> <<>>]

\* The engine after a pass, or after the lazy pass of a fill or a
\* suggestion call, that ended as d.
EngineAfter(d) ==
    /\ detected_fields' = d.detected_fields
    /\ overlays' = d.overlays
    /\ lastPass' = d.lastPass
    /\ prevPass' = d.prevPass
    /\ scanPage' = d.scanPage
    /\ passes' = passes \o d.pass

DetectEnds(d) ==
    /\ EngineAfter(d)
    /\ call' = [op |-> "detect", ret |-> d.returned, raised |-> d.raised, pass |-> d.pass]

DetectOn(fields) ==
    \E fault \in FaultKinds :
        DetectEnds(detect_and_highlight_fields(fields, page, overlays, detected_fields,
                                               lastPass, prevPass, scanPage, fault))

\* The caller runs detect_and_highlight_fields(page).
Detect ==
    /\ clock < MaxPasses
    /\ DetectOn(detectAllFields(page, overlays, clock))
    /\ clock' = clock + 1
    /\ events' = <<>>
    /\ UNCHANGED <<page, data, probeVars, bridgeVars>>

FillEnds(r, pass) ==
    /\ page' = r.page
    /\ events' = r.events
    /\ call' = [op |-> "fill", ret |-> r.results, raised |-> r.raised, pass |-> pass]

\* smart_field_fill after its lazy pass ended as d: an exception that
\* leaves detect_and_highlight_fields leaves smart_field_fill too.  `kinds`
\* are the ways in which the page call of a key can end.
FillAfter(d, kinds) ==
    /\ EngineAfter(d)
    /\ IF d.raised
       THEN FillEnds([page |-> page, results |-> <<>>, events |-> <<>>, raised |-> TRUE], d.pass)
       ELSE \E faults \in [1..Len(data) -> kinds] :
               FillEnds(FillLoop(page, d.detected_fields, data, faults, 1, <<>>, <<>>), d.pass)

FillOn(fields, kinds) ==
    \E fault \in (IF detected_fields = <<>> THEN FaultKinds ELSE {"none"}) :
        FillAfter(LazyDetect(fields, page, overlays, detected_fields,
                             lastPass, prevPass, scanPage, fault), kinds)

FillCall(kinds) ==
    /\ detected_fields = <<>> => clock < MaxPasses
    /\ FillOn(detectAllFields(page, overlays, clock), kinds)
    /\ clock' = IF detected_fields = <<>> THEN clock + 1 ELSE clock
    /\ UNCHANGED <<data, probeVars, bridgeVars>>

\* The caller runs smart_field_fill(page, field_data) with its data.
SmartFieldFill == FillCall(WriteFaults)

\* The caller runs smart_field_fill(page, field_data) with its data, and
\* the page call of every key ends normally.
SmartFieldFillUnfailing == FillCall({"none"})

SuggestEnds(r, pass) ==
    call' = [op |-> "suggest", ret |-> r.suggestions, raised |-> r.raised, pass |-> pass]

\* get_field_suggestions after its lazy pass ended as d
SuggestAfter(d) ==
    /\ EngineAfter(d)
    /\ IF d.raised
       THEN SuggestEnds([suggestions |-> <<>>, raised |-> TRUE], d.pass)
       ELSE \E undefinedAs \in UndefinedAs :
               SuggestEnds(get_field_suggestions(d.detected_fields, data, undefinedAs), d.pass)

SuggestOn(fields) ==
    \E fault \in (IF detected_fields = <<>> THEN FaultKinds ELSE {"none"}) :
        SuggestAfter(LazyDetect(fields, page, overlays, detected_fields,
                                lastPass, prevPass, scanPage, fault))

\* The caller runs get_field_suggestions(page, user_data) with its data.
GetFieldSuggestions ==
    /\ detected_fields = <<>> => clock < MaxPasses
    /\ SuggestOn(detectAllFields(page, overlays, clock))
    /\ clock' = IF detected_fields = <<>> THEN clock + 1 ELSE clock
    /\ events' = <<>>
    /\ UNCHANGED <<page, data, probeVars, bridgeVars>>

\* dict.get(key, default) on a dict given as its items
Get(items, key, default) ==
    IF \E i \in 1..Len(items) : items[i].key = key
    THEN items[CHOOSE i \in 1..Len(items) : items[i].key = key].value
    ELSE default

\* The keys of the field_mapping of search_flights, in the order of the dict
\* literal, each with the key of flight_data its value is read from.
FlightKeys ==
    << [semantic |-> "departure",   source |-> "from"],
       [semantic |-> "destination", source |-> "to"],
       [semantic |-> "date",        source |-> "departure_date"],
       [semantic |-> "email",       source |-> "email"],
       [semantic |-> "name",        source |-> "passenger_name"] >>

\* field_mapping of search_flights, after the empty values are filtered out
field_mapping(flight_data) ==
    SelectSeq([k \in 1..Len(FlightKeys) |->
                  Item(FlightKeys[k].semantic, Get(flight_data, FlightKeys[k].source, ""))],
              LAMBDA item : item.value # "")

\* required_fields with the date added: a variant in which a date that
\* could not be filled stops the attempt too.
RequiredFieldsAndDate == <<"departure", "destination", "date">>

\* required_fields of search_flights
RequiredFields == <<"departure", "destination">>

\* results.get(field, False) on the results of smart_field_fill
ResultOf(results, field) ==
    \E j \in 1..Len(results) : results[j].key = field /\ results[j].success

\* all_required_filled of search_flights
all_required_filled(results, mapping) ==
    \A k \in 1..Len(RequiredFields) :
        Get(mapping, RequiredFields[k], "") # "" => ResultOf(results, RequiredFields[k])

\* search_selectors of click_search_button, in list order
search_selectors ==
    << "button[type=\"submit\"]", "input[type=\"submit\"]", "button:has-text(\"Search\")",
       "button:has-text(\"Find\")", "button:has-text(\"Go\")",
       "[role=\"button\"]:has-text(\"Search\")", ".search-button", ".btn-search",
       "#search-btn", "button:contains(\"Search\")", "button:contains(\"Find\")" >>

\* How the probe of one selector can end: wait_for_selector raises, with
\* no visible element for the selector within its 2 seconds ("timeout");
\* it returns an element and click() raises before it has clicked
\* ("failed"), raises after it has clicked ("lost": the click set off a
\* navigation that failed), or returns ("clicked").  With the default state
\* of wait_for_selector, visible, it never returns None.
ProbeOutcomes == {"timeout", "failed", "lost", "clicked"}

\* The loop of click_search_button without its `return True`: a variant
\* that goes on to the selectors after the one it has clicked.
RECURSIVE ProbeAll(_, _, _, _)
ProbeAll(controls, k, probed, clicks) ==
    IF k > Len(search_selectors)
    THEN [ returned |-> \E i \in 1..Len(clicks) : clicks[i].returned,
           probed |-> probed, clicks |-> clicks ]
    ELSE ProbeAll(controls, k + 1, Append(probed, k),
                  IF controls[k] \in {"lost", "clicked"}
                  THEN Append(clicks, [selector |-> k, returned |-> controls[k] = "clicked"])
                  ELSE clicks)

\* The loop of click_search_button from the k-th selector on: controls[k]
\* is how the probe of the k-th selector ends on this page; probed are the
\* selectors waited for so far, clicks the clicks the page has observed,
\* each with whether click() returned.
RECURSIVE ProbeFrom(_, _, _, _)
ProbeFrom(controls, k, probed, clicks) ==
    IF k > Len(search_selectors)
    THEN [ returned |-> FALSE, probed |-> probed, clicks |-> clicks ]
    ELSE IF controls[k] = "clicked"
         THEN [ returned |-> TRUE, probed |-> Append(probed, k),
                clicks |-> Append(clicks, [selector |-> k, returned |-> TRUE]) ]
         ELSE ProbeFrom(controls, k + 1, Append(probed, k),
                        IF controls[k] = "lost"
                        THEN Append(clicks, [selector |-> k, returned |-> FALSE])
                        ELSE clicks)

\* click_search_button(page)
click_search_button(controls) == ProbeFrom(controls, 1, <<>>, <<>>)

\* what the page observes of the clicks of click_search_button
ClickEvents(clicks) ==
    [i \in 1..Len(clicks) |-> Observed("click", 0, search_selectors[clicks[i].selector], "")]

\* A page on which the probe of every selector times out.
NoControls == [k \in 1..Len(search_selectors) |-> "timeout"]

\* The selectors that the submit controls of the pages answer to: a
\* submit button and the id search-btn.
ControlSelectors == {1, 9}

\* The submit controls of the pages: how the probe of every selector ends.
Controls ==
    { [k \in 1..Len(search_selectors) |-> IF k \in ControlSelectors THEN f[k] ELSE "timeout"] :
        f \in [ControlSelectors -> ProbeOutcomes] }

\* Pages with no submit control, or with one submit button whose click
\* returns.
PlainControls ==
    { NoControls, [NoControls EXCEPT ![1] = "clicked"] }

\* The line search_flights logs last
LastLog(raised, filled, clicked) ==
    IF raised THEN "Flight search automation error"
    ELSE IF ~filled THEN "Failed to fill required fields"
    ELSE IF clicked THEN "Flight search initiated successfully"
    ELSE "Fields filled but search button not found"

\* The end of search_flights, from the results r of smart_field_fill:
\* controls are the submit controls of the page.  An exception that leaves
\* smart_field_fill is caught and False returned.
SearchEnds(r, mapping, controls, pass) ==
    LET filled == ~r.raised /\ all_required_filled(r.results, mapping)
        c == IF filled THEN click_search_button(controls)
             ELSE [returned |-> FALSE, probed |-> <<>>, clicks |-> <<>>]
    IN  /\ page' = r.page
        /\ events' = r.events \o ClickEvents(c.clicks)
        /\ call' = [ op |-> "search", ret |-> r.results, raised |-> FALSE, pass |-> pass,
                     mapping |-> mapping,
                     submit |-> IF ~filled THEN "skipped"
                                ELSE IF c.returned THEN "clicked" ELSE "notfound",
                     controls |-> IF filled THEN controls ELSE NoControls,
                     probed |-> c.probed, clicks |-> c.clicks,
                     caught |-> r.raised,
                     log |-> LastLog(r.raised, filled, c.returned),
                     returned |-> c.returned ]

\* The end of search_flights on a page with submit controls of `pages`
SearchSubmit(r, mapping, pages, pass) ==
    \E controls \in pages : SearchEnds(r, mapping, controls, pass)

\* search_flights from its call of smart_field_fill on, the lazy pass of
\* which ended as d; firstPass is how the pass of search_flights itself ended
SearchFill(firstPass, d, mapping, pages) ==
    /\ EngineAfter([d EXCEPT !.pass = firstPass \o d.pass])
    /\ IF d.raised
       THEN SearchEnds([page |-> page, results |-> <<>>, events |-> <<>>, raised |-> TRUE],
                       mapping, NoControls, firstPass \o d.pass)
       ELSE \E faults \in [1..Len(mapping) -> WriteFaults] :
               SearchSubmit(FillLoop(page, d.detected_fields, mapping, faults, 1, <<>>, <<>>),
                            mapping, pages, firstPass \o d.pass)

\* search_flights after its own detection pass ended as d: smart_field_fill
\* runs a pass of its own when that one left the field list empty.
SearchAfterDetect(d, pages) ==
    /\ clock' = IF d.detected_fields = <<>> THEN clock + 2 ELSE clock + 1
    /\ IF d.raised
       THEN /\ EngineAfter(d)
            /\ SearchEnds([page |-> page, results |-> <<>>, events |-> <<>>, raised |-> TRUE],
                          field_mapping(data), NoControls, d.pass)
       ELSE \E fault \in (IF d.detected_fields = <<>> THEN FaultKinds ELSE {"none"}) :
               SearchFill(d.pass,
                          LazyDetect(detectAllFields(page, d.overlays, clock + 1), page,
                                     d.overlays, d.detected_fields, d.lastPass, d.prevPass,
                                     d.scanPage, fault),
                          field_mapping(data), pages)

SearchOn(fields, pages) ==
    \E fault \in FaultKinds :
        SearchAfterDetect(detect_and_highlight_fields(fields, page, overlays, detected_fields,
                                                      lastPass, prevPass, scanPage, fault),
                          pages)

\* The caller runs search_flights(page, flight_data) with its data, on a
\* page with submit controls of `pages`.
SearchCall(pages) ==
    /\ clock < MaxPasses
    /\ SearchOn(detectAllFields(page, overlays, clock), pages)
    /\ UNCHANGED <<data, probeVars, bridgeVars>>

SearchFlights == SearchCall(Controls)

\* search_flights on a page with one submit button or none
SearchFlightsPlain == SearchCall(PlainControls)

\* The caller runs click_search_button(page) itself.
ClickSearchButton ==
    \E controls \in Controls :
        LET c == click_search_button(controls)
        IN  /\ events' = ClickEvents(c.clicks)
            /\ call' = [ op |-> "click", ret |-> <<>>, raised |-> FALSE, pass |-> <<>>,
                         controls |-> controls, probed |-> c.probed, clicks |-> c.clicks,
                         returned |-> c.returned ]
            /\ UNCHANGED <<page, overlays, clock, detected_fields, lastPass, prevPass, scanPage,
                           passes, data, probeVars, bridgeVars>>

\* The flight_data the caller hands to search_flights.
FlightData ==
    { <<Item("from", "LAX"), Item("to", "JFK")>>,
      <<Item("from", "LAX"), Item("to", "JFK"), Item("departure_date", "2025-08-01")>>,
      <<Item("to", "JFK"), Item("passenger_name", "Ann")>>,
      <<Item("from", ""), Item("email", "ann@example.org")>> }

\* A script of the page, or its user, takes a detected element out of the
\* document.  The record of the last call and of what the page observed
\* during it ends here: they describe the page as the call left it.
PageRemove ==
    /\ \A i \in 1..Len(page) : page[i].attached
    /\ \E k \in 1..Len(lastPass) :
          page' = [page EXCEPT ![lastPass[k].element].attached = FALSE]
    /\ call' = NoCall
    /\ events' = <<>>
    /\ UNCHANGED <<overlays, clock, detected_fields, lastPass, prevPass, scanPage, passes,
                   data, probeVars, bridgeVars>>

\* The engine as constructed, on one of the pages and with one of the data.
InitEngine(pages, mappings) ==
    /\ page \in pages
    /\ data \in mappings
    /\ overlays = <<>>
    /\ clock = 0
    /\ detected_fields = <<>>
    /\ lastPass = <<>>
    /\ prevPass = <<>>
    /\ scanPage = <<>>
    /\ passes = <<>>
    /\ call = NoCall
    /\ events = <<>>

\* ------------------------------------------------- analysis of one element

ProbeNames == {"", "q", "Email"}
ProbeIds == {"", "pwd"}
ProbePlaceholders == {"", "Where to", "Search"}
ProbeLabels == {"", "Arrival date", "Notes"}
ProbeNearby == {<<>>, <<"Tel">>}

\* The elements whose analysis is probed.
ProbeElements ==
    { [BaseElement EXCEPT !.name = n, !.id = i, !.placeholder = p,
                          !.labelText = l, !.siblingText = t] :
        n \in ProbeNames, i \in ProbeIds, p \in ProbePlaceholders,
        l \in ProbeLabels, t \in ProbeNearby }

\* What analyzeField(element, 0) finds for the probe, on a page without
\* highlight boxes.
AnalysisOf(field, added) ==
    [semantic |-> field.semantic, score |-> field.score, added |-> added]

ProbeAnalysis(el, added) == AnalysisOf(analyzeField(el, 1, 0, 0, <<>>), added)

\* The detector analyses the element as it is.
AnalyzeProbe ==
    /\ analysis = <<>>
    /\ analysis' = <<ProbeAnalysis(probe, "none")>>
    /\ UNCHANGED <<probe, engineVars, bridgeVars>>

\* The page gives the element a label, and the detector analyses it again.
AddLabel ==
    /\ analysis # <<>>
    /\ probe.labelText = ""
    /\ \E text \in ProbeLabels \ {""} :
          /\ probe' = [probe EXCEPT !.labelText = text]
          /\ analysis' = Append(analysis, ProbeAnalysis(probe', "label"))
    /\ UNCHANGED <<engineVars, bridgeVars>>

\* The page gives the element a placeholder, and the detector analyses it
\* again.
AddPlaceholder ==
    /\ analysis # <<>>
    /\ probe.placeholder = ""
    /\ \E text \in ProbePlaceholders \ {""} :
          /\ probe' = [probe EXCEPT !.placeholder = text]
          /\ analysis' = Append(analysis, ProbeAnalysis(probe', "placeholder"))
    /\ UNCHANGED <<engineVars, bridgeVars>>

\* ---------------------------------------------------------- the bridge

DefaultTimeout == 60
TimeoutCap == 90
MaxTimeout == 2

\* task_data.get('timeout', 60)
TimeoutOf(task_data) == IF task_data.hasTimeout THEN task_data.timeout ELSE DefaultTimeout

\* The timeout as requested: a variant without the cap.
ActualTimeoutUncapped(task_data) == TimeoutOf(task_data)

\* actual_timeout = min(timeout, 90)
ActualTimeout(task_data) == Min(TimeoutOf(task_data), TimeoutCap)

\* The task_data of the execute_task messages: with or without a task
\* description, with a timeout below the cap, above it, or none.
Tasks ==
    { [task |-> d, hasTimeout |-> TRUE, timeout |-> t] :
        d \in {"", "find flights"}, t \in (1..MaxTimeout) \cup {TimeoutCap + MaxTimeout} }
    \cup { [task |-> d, hasTimeout |-> FALSE, timeout |-> 0] : d \in {"", "find flights"} }

\* no exception raised
NoFault == [type |-> "none", message |-> ""]

\* The exceptions that the creation of the agent and its run can raise.
AgentErrors ==
    { [type |-> "Exception", message |-> "Captcha challenge shown"],
      [type |-> "Exception", message |-> "Access BLOCKED by site"],
      [type |-> "Exception", message |-> "net::ERR_CONNECTION_RESET"],
      [type |-> "TimeoutError", message |-> ""] }

\* What agent.run() can return: a history that json.dumps can write, or one
\* it cannot.
AgentResults == {"serializable", "unserializable"}

\* send_response(response): json.dumps and print inside try/except; a
\* response that cannot be serialized is logged and not sent.
send_response(sent, response, serializable) ==
    IF serializable THEN Append(sent, response) ELSE sent

\* the keywords of the bot detection check, in list order
BotKeywords == <<"captcha", "bot", "verification", "challenge", "blocked">>

\* The outer `except Exception as e` of execute_task.
OnException(sent, e) ==
    IF \E k \in 1..Len(BotKeywords) : Contains(toLowerCase(e.message), BotKeywords[k])
    THEN send_response(sent, [type |-> "error",
                              message |-> "Bot detection encountered: " \o e.message], TRUE)
    ELSE send_response(sent, [type |-> "error", message |-> e.message], TRUE)

TimedOutMessage(actual_timeout) ==
    "Task timed out after " \o ToString(actual_timeout)
        \o " seconds. Site may have bot detection or be unresponsive."

\* execute_task without its inner `except asyncio.TimeoutError`: a variant
\* in which the timeout reaches the outer handler like any other exception.
OnTimeoutErrorAsFailure(sent, actual_timeout) ==
    OnException(sent, [type |-> "TimeoutError", message |-> ""])

\* The inner `except asyncio.TimeoutError` of execute_task.
OnTimeoutError(sent, actual_timeout) ==
    send_response(sent, [type |-> "error", message |-> TimedOutMessage(actual_timeout)], TRUE)

\* process_result(result) and the success response
OnResult(sent, result) ==
    send_response(sent, [type |-> "success", message |-> ""], result = "serializable")

\* What an exception raised inside the inner try does: asyncio.TimeoutError
\* is caught there, every other exception by the outer handler.
OnRaise(sent, e, actual_timeout) ==
    IF e.type = "TimeoutError" THEN OnTimeoutError(sent, actual_timeout)
    ELSE OnException(sent, e)

\* execute_task(task_data), up to the await of asyncio.wait_for: a missing
\* task description raises ValueError; the creation of the agent can raise.
ExecuteTask ==
    /\ agent = "none"
    /\ IF task.task = ""
       THEN /\ thrown' = [type |-> "ValueError", message |-> "Task description is required"]
            /\ responses' = OnException(responses, thrown')
            /\ agent' = "failed"
       ELSE \E created \in {[type |-> "Agent", message |-> ""]} \cup AgentErrors :
               IF created.type = "Agent"
               THEN agent' = "running" /\ responses' = responses /\ thrown' = thrown
               ELSE /\ agent' = "failed" /\ thrown' = created
                    /\ responses' = OnException(responses, created)
    /\ elapsed' = 0
    /\ UNCHANGED <<task, loopVars, engineVars, probeVars>>

\* A second passes while asyncio.wait_for awaits the agent.
Tick ==
    /\ agent = "running"
    /\ elapsed < ActualTimeout(task)
    /\ elapsed' = elapsed + 1
    /\ UNCHANGED <<task, agent, responses, thrown, loopVars, engineVars, probeVars>>

\* agent.run() returns before the deadline.
AgentReturns ==
    /\ agent = "running"
    /\ elapsed < ActualTimeout(task)
    /\ \E result \in AgentResults : responses' = OnResult(responses, result)
    /\ agent' = "returned"
    /\ UNCHANGED <<task, elapsed, thrown, loopVars, engineVars, probeVars>>

\* agent.run() raises before the deadline.
AgentRaises ==
    /\ agent = "running"
    /\ elapsed < ActualTimeout(task)
    /\ \E e \in AgentErrors :
          thrown' = e /\ responses' = OnRaise(responses, e, ActualTimeout(task))
    /\ agent' = "raised"
    /\ UNCHANGED <<task, elapsed, loopVars, engineVars, probeVars>>

\* The deadline of asyncio.wait_for elapses: it cancels the run and raises
\* asyncio.TimeoutError into execute_task.
Deadline ==
    /\ agent = "running"
    /\ elapsed = ActualTimeout(task)
    /\ responses' = OnTimeoutError(responses, ActualTimeout(task))
    /\ agent' = "cancelled"
    /\ UNCHANGED <<task, elapsed, thrown, loopVars, engineVars, probeVars>>

\* The operation the cancelled run had in flight completes in the browser:
\* nothing awaits it any more.
LateResult ==
    /\ agent = "cancelled"
    /\ agent' = "abandoned"
    /\ UNCHANGED <<task, elapsed, responses, thrown, loopVars, engineVars, probeVars>>

\* ------------------------------------------------------- the message loop

MaxLines == 2

\* message.get('data', {}) of a message without data
NoData == [task |-> "", hasTimeout |-> FALSE, timeout |-> 0]

\* A line of the input stream, as run() tells lines apart: one that is blank
\* after strip(), one that json.loads rejects, or a JSON message with its
\* type and its data.
BlankLine == [kind |-> "blank", type |-> "", data |-> NoData]
InvalidLine == [kind |-> "invalid", type |-> "", data |-> NoData]
Message(type, task_data) == [kind |-> "json", type |-> type, data |-> task_data]

\* The execute_task messages of the input streams: without a task
\* description, or with one and a timeout of a few seconds.
LoopTasks == { t \in Tasks : t.task = "" \/ (t.hasTimeout /\ t.timeout <= MaxTimeout) }

InputLines ==
    { BlankLine, InvalidLine, Message("ping", NoData), Message("test", NoData),
      Message("restart", NoData) }
    \cup { Message("execute_task", t) : t \in LoopTasks }

\* The input streams: a few lines, and then the stream is closed.
InputStreams == UNION { [1..n -> InputLines] : n \in 0..MaxLines }

\* run() sends the ready signal and enters its loop.
Start ==
    /\ loop = "starting"
    /\ responses' = send_response(responses,
                        [type |-> "ready", message |-> "Browser-use bridge is ready"], TRUE)
    /\ loop' = "reading"
    /\ UNCHANGED <<task, agent, elapsed, thrown, stdin, handled, engineVars, probeVars>>

\* `if not line.strip(): continue`
ReadBlank ==
    /\ loop = "reading" /\ stdin # <<>> /\ Head(stdin).kind = "blank"
    /\ stdin' = Tail(stdin)
    /\ UNCHANGED <<task, agent, elapsed, responses, thrown, loop, handled, engineVars,
                   probeVars>>

\* run() has read a line with a message in it, or one that is no JSON, and
\* answers it with one response.
Answer(response) ==
    /\ stdin' = Tail(stdin)
    /\ handled' = Append(handled, Head(stdin))
    /\ responses' = send_response(responses, response, TRUE)
    /\ UNCHANGED <<task, agent, elapsed, thrown, loop, engineVars, probeVars>>

\* `except json.JSONDecodeError`
ReadInvalid ==
    /\ loop = "reading" /\ stdin # <<>> /\ Head(stdin).kind = "invalid"
    /\ Answer([type |-> "error", message |-> "Invalid JSON: Expecting value"])

\* handle_message: ping
ReadPing ==
    /\ loop = "reading" /\ stdin # <<>>
    /\ Head(stdin).kind = "json" /\ Head(stdin).type = "ping"
    /\ Answer([type |-> "pong", message |-> "Bridge is alive"])

\* handle_message: test, and test_connection with the LLM answering or not
ReadTest ==
    /\ loop = "reading" /\ stdin # <<>>
    /\ Head(stdin).kind = "json" /\ Head(stdin).type = "test"
    /\ \/ Answer([type |-> "test_success", message |-> "Browser-use is working correctly"])
       \/ Answer([type |-> "test_error", message |-> "Browser-use test failed: LLM not initialized"])

\* handle_message: a type that is none of execute_task, test and ping
ReadUnknown ==
    /\ loop = "reading" /\ stdin # <<>>
    /\ Head(stdin).kind = "json" /\ Head(stdin).type \notin {"execute_task", "test", "ping"}
    /\ Answer([type |-> "error", message |-> "Unknown message type: " \o Head(stdin).type])

\* handle_message: execute_task; run() awaits execute_task(message data)
ReadExecuteTask ==
    /\ loop = "reading" /\ stdin # <<>>
    /\ Head(stdin).kind = "json" /\ Head(stdin).type = "execute_task"
    /\ stdin' = Tail(stdin)
    /\ handled' = Append(handled, Head(stdin))
    /\ task' = Head(stdin).data
    /\ agent' = "none"
    /\ elapsed' = 0
    /\ thrown' = NoFault
    /\ loop' = "handling"
    /\ UNCHANGED <<responses, engineVars, probeVars>>

\* execute_task has returned to handle_message, and that to run().
TaskEnds ==
    /\ loop = "handling"
    /\ agent \in {"failed", "returned", "raised", "cancelled", "abandoned"}
    /\ loop' = "reading"
    /\ UNCHANGED <<task, agent, elapsed, responses, thrown, stdin, handled, engineVars,
                   probeVars>>

\* `except EOFError: break`
StreamCloses ==
    /\ loop = "reading" /\ stdin = <<>>
    /\ loop' = "stopped"
    /\ UNCHANGED <<task, agent, elapsed, responses, thrown, stdin, handled, engineVars,
                   probeVars>>

\* ---------------------------------------------------------- specifications

IdleEngine == InitEngine({<<>>}, {<<>>})
IdleProbe == probe = BaseElement /\ analysis = <<>>
IdleLoop == stdin = <<>> /\ loop = "idle" /\ handled = <<>>
IdleBridge ==
    /\ task = [task |-> "", hasTimeout |-> FALSE, timeout |-> 0]
    /\ agent = "idle" /\ elapsed = 0 /\ responses = <<>> /\ thrown = NoFault
    /\ IdleLoop

\* Sessions of a caller that fills forms and asks for suggestions.
Init == InitEngine(FormPages, DataMappings) /\ IdleProbe /\ IdleBridge
Next == SmartFieldFill \/ GetFieldSuggestions \/ PageRemove
Spec == Init /\ [][Next]_vars

\* Sessions of a caller that only asks for suggestions.
InitSuggest == InitEngine(SuggestPages, SuggestData) /\ IdleProbe /\ IdleBridge
NextSuggest == GetFieldSuggestions \/ PageRemove
SpecSuggest == InitSuggest /\ [][NextSuggest]_vars

\* Sessions of a caller that detects again between its fills and its
\* requests for suggestions.
InitRedetect ==
    InitEngine(FlightPages, {<<Item("departure", "LAX")>>}) /\ IdleProbe /\ IdleBridge
NextRedetect == Detect \/ SmartFieldFill \/ GetFieldSuggestions \/ PageRemove
SpecRedetect == InitRedetect /\ [][NextRedetect]_vars

\* Sessions of a caller that fills a form whose elements share an id, a
\* name or a placeholder.
InitSame ==
    InitEngine(SamePages, {<<Item("departure", "LAX")>>}) /\ IdleProbe /\ IdleBridge
NextSame == SmartFieldFill \/ PageRemove
SpecSame == InitSame /\ [][NextSame]_vars

\* Sessions of a caller that runs detection passes over any page.
InitDetect == InitEngine(Pages, {<<>>}) /\ IdleProbe /\ IdleBridge
NextDetect == Detect \/ PageRemove
SpecDetect == InitDetect /\ [][NextDetect]_vars

\* Sessions of a caller that fills a form whose elements share names and
\* placeholders and leave the document, with page calls that end normally
\* when they write.
InitShared ==
    InitEngine(SharedPages, {<<Item("departure", "LAX")>>}) /\ IdleProbe /\ IdleBridge
NextShared == SmartFieldFillUnfailing \/ PageRemove
SpecShared == InitShared /\ [][NextShared]_vars

\* Sessions of a caller that runs flight searches.
InitFlights == InitEngine(FlightPages, FlightData) /\ IdleProbe /\ IdleBridge
NextFlights == SearchFlightsPlain \/ PageRemove
SpecFlights == InitFlights /\ [][NextFlights]_vars

\* Sessions of a caller that runs flight searches and clicks the search
\* button on pages with any submit controls.
InitSubmit ==
    /\ InitEngine({<<>>, <<DepartureBare>>}, {<<Item("from", "LAX")>>})
    /\ IdleProbe /\ IdleBridge
NextSubmit == SearchFlights \/ ClickSearchButton
SpecSubmit == InitSubmit /\ [][NextSubmit]_vars

\* The analysis of one element, as the page adds a label or a placeholder.
InitAnalyze == IdleEngine /\ probe \in ProbeElements /\ analysis = <<>> /\ IdleBridge
NextAnalyze == AnalyzeProbe \/ AddLabel \/ AddPlaceholder
SpecAnalyze == InitAnalyze /\ [][NextAnalyze]_vars

\* One execute_task message handled by the bridge.
InitBridge ==
    /\ IdleEngine /\ IdleProbe
    /\ task \in Tasks /\ agent = "none" /\ elapsed = 0 /\ responses = <<>> /\ thrown = NoFault
    /\ IdleLoop
NextBridge == ExecuteTask \/ Tick \/ AgentReturns \/ AgentRaises \/ Deadline \/ LateResult
SpecBridge == InitBridge /\ [][NextBridge]_vars

\* The bridge on an input stream, from the start of run().
InitLoop ==
    /\ IdleEngine /\ IdleProbe
    /\ task = NoData /\ agent = "idle" /\ elapsed = 0 /\ responses = <<>> /\ thrown = NoFault
    /\ stdin \in InputStreams /\ loop = "starting" /\ handled = <<>>
NextLoop ==
    \/ Start \/ ReadBlank \/ ReadInvalid \/ ReadPing \/ ReadTest \/ ReadUnknown
    \/ ReadExecuteTask \/ ExecuteTask \/ Tick \/ AgentReturns \/ AgentRaises \/ Deadline
    \/ LateResult \/ TaskEnds \/ StreamCloses
SpecLoop == InitLoop /\ [][NextLoop]_vars

\* ---------------------------------------------------------------- properties

\* the results of the last smart_field_fill, and what the page observed of
\* one of its keys
FillReturned == call.op = "fill" /\ ~call.raised
EventsFor(key) == SelectSeq(events, LAMBDA e : e.key = key)
TypesOf(seen) == [i \in 1..Len(seen) |-> seen[i].type]

\* no field of the cached list has the key as its semantic, or contains it
\* in its semantic when the case of both is folded
NoFieldMatches(key) ==
    \A k \in 1..Len(detected_fields) :
        /\ detected_fields[k].semantic # key
        /\ ~Contains(toLowerCase(detected_fields[k].semantic), toLowerCase(key))

\* C1: smart_field_fill, and so fill_field_by_semantic_type, never raises to
\* its caller, and for every key that no detected field matches, exactly or
\* partially, the result recorded for that key is False.
C1_NoMatchReturnsFalse ==
    call.op = "fill" =>
        /\ ~call.raised
        /\ \A j \in 1..Len(data) :
              NoFieldMatches(data[j].key) =>
                  /\ j <= Len(call.ret)
                  /\ call.ret[j] = [key |-> data[j].key, success |-> FALSE]

\* C1: a fill with a non-empty field list, none of whose fields matches one
\* of the keys, has returned False for that key.
C1_Witness ==
    /\ FillReturned
    /\ detected_fields # <<>>
    /\ \E j \in 1..Len(data) :
          /\ NoFieldMatches(data[j].key)
          /\ call.ret[j] = [key |-> data[j].key, success |-> FALSE]

\* the place, among the events, of the last assignment to element e
LastAssign(e) ==
    LET places == { i \in 1..Len(events) : events[i].type = "assign" /\ events[i].element = e }
    IN  CHOOSE i \in places : \A j \in places : j <= i

\* C2: smart_field_fill returns one boolean per key of its input, under the
\* same keys; a False for a key stops nothing, so every key after it has its
\* result too; and every value the page saw assigned is still the value of
\* its element unless a later key assigned that element again.
C2_PerKeyResults ==
    call.op = "fill" =>
        /\ ~call.raised
        /\ Len(call.ret) = Len(data)
        /\ \A j \in 1..Len(data) :
              /\ call.ret[j].key = data[j].key
              /\ call.ret[j].success \in BOOLEAN
        /\ \A i \in 1..Len(events) :
              events[i].type = "assign" =>
                  page[events[i].element].value = events[LastAssign(events[i].element)].value

\* C2: a fill of two keys whose first result is False, by an exception of
\* the page write that came after the value was assigned, and whose second
\* is True; the value written for the first key is still on the page.
C2_Witness ==
    /\ FillReturned
    /\ Len(data) = 2 /\ Len(call.ret) = 2
    /\ ~call.ret[1].success /\ call.ret[2].success
    /\ \E i \in 1..Len(events) :
          /\ events[i].type = "assign" /\ events[i].key = data[1].key
          /\ page[events[i].element].value = data[1].value

\* whether text begins with prefix
StartsWith(text, prefix) ==
    Len(text) >= Len(prefix) /\ SubSeq(text, 1, Len(prefix)) = prefix

\* C3: once the deadline of the attempt has elapsed with the agent's run
\* still in flight, the attempt has sent one response only, the timed-out
\* one: no success, no bot detection and no generic failure, and nothing
\* more when the result of the abandoned operation arrives afterwards.
C3_TimeoutOnly ==
    agent \in {"cancelled", "abandoned"} =>
        /\ Len(responses) = 1
        /\ responses[1].type = "error"
        /\ StartsWith(responses[1].message,
                      "Task timed out after " \o ToString(ActualTimeout(task)) \o " seconds")

\* C3: the deadline, capped, has elapsed, the late result has arrived, and
\* the one response is the timed-out one.
C3_Witness ==
    /\ agent = "abandoned"
    /\ elapsed = TimeoutCap
    /\ TimeoutOf(task) > TimeoutCap
    /\ Len(responses) = 1
    /\ StartsWith(responses[1].message, "Task timed out after 90 seconds")

\* C4: in every state every field of the engine's detected field list has
\* a score in 0..100.
C4_ScoreInRange ==
    \A k \in 1..Len(detected_fields) : detected_fields[k].score \in 0..100

\* C4: the list holds a field with every bonus, at 100, and one with none,
\* at 50.
C4_Witness ==
    /\ \E k \in 1..Len(detected_fields) :
          /\ detected_fields[k].score = 100
          /\ detected_fields[k].context.label # ""
          /\ detected_fields[k].attributes.placeholder # ""
          /\ detected_fields[k].semantic # "unknown"
    /\ \E k \in 1..Len(detected_fields) : detected_fields[k].score = 50

\* the entries of a suggestion call's answer, when it returned one
SuggestReturned == call.op = "suggest" /\ ~call.raised

\* C5: every suggestion list that get_field_suggestions returns has at most
\* 3 entries, its confidences never increase from one entry to the next,
\* and no entry has a confidence below 0.3.
C5_Descending ==
    SuggestReturned =>
        \A j \in 1..Len(call.ret) :
            LET list == call.ret[j].suggestions
            IN  /\ Len(list) <= 3
                /\ \A i \in 1..(Len(list) - 1) : list[i].confidence >= list[i + 1].confidence
                /\ \A i \in 1..Len(list) : list[i].confidence >= Float(300, 0)

\* C5: more than three fields were detected, and a returned list has three
\* entries, two of them with the same confidence.
C5_Witness ==
    /\ SuggestReturned
    /\ Len(detected_fields) > 3
    /\ \E j \in 1..Len(call.ret) :
          LET list == call.ret[j].suggestions
          IN  /\ Len(list) = 3
              /\ \E i \in 1..2 : list[i].confidence = list[i + 1].confidence

\* C5, as first stated: the confidences of every returned list decrease
\* strictly from one entry to the next.
C5_StrictlyDescending ==
    SuggestReturned =>
        \A j \in 1..Len(call.ret) :
            LET list == call.ret[j].suggestions
            IN  /\ Len(list) <= 3
                /\ \A i \in 1..(Len(list) - 1) : list[i].confidence > list[i + 1].confidence
                /\ \A i \in 1..Len(list) : list[i].confidence >= Float(300, 0)

\* what the scanner meets on the page of the last completed pass: the pairs
\* of a selector and a visible element it selects
Found ==
    { p \in (1..Len(fieldSelectors)) \X (1..Len(scanPage)) :
        /\ Matches(fieldSelectors[p[1]], scanPage[p[2]])
        /\ isVisible(scanPage[p[2]]) }

\* selector order, then document order within a selector
Earlier(p, q) == p[1] < q[1] \/ (p[1] = q[1] /\ p[2] < q[2])

\* how many pairs the scanner meets before p
PlaceOf(p) == Cardinality({ q \in Found : Earlier(q, p) })

\* C6: the list of a detection pass holds one field per pair of a selector
\* and a visible element it selects, numbered in the order of discovery
\* (selector order, then document order), and is ordered by score
\* descending with fields of equal score in their order of discovery; the
\* engine holds the list in that order.
C6_RankedStable ==
    /\ Len(lastPass) = Cardinality(Found)
    /\ \A a \in 1..Len(lastPass) :
          \E p \in Found : PlaceOf(p) = lastPass[a].id[2] /\ p[2] = lastPass[a].element
    /\ \A a \in 1..Len(lastPass) : \A b \in (a + 1)..Len(lastPass) :
          \/ lastPass[a].score > lastPass[b].score
          \/ /\ lastPass[a].score = lastPass[b].score
             /\ lastPass[a].id[2] < lastPass[b].id[2]
    /\ Len(detected_fields) = Len(lastPass)
    /\ \A a \in 1..Len(lastPass) : detected_fields[a].id = lastPass[a].id

\* C6: a pass has returned two fields of equal score, and a field of higher
\* score that was discovered after another now stands before it.
C6_Witness ==
    /\ call.op = "detect" /\ call.ret = detected_fields
    /\ \E a \in 1..Len(lastPass) : \E b \in (a + 1)..Len(lastPass) :
          lastPass[a].score = lastPass[b].score
    /\ \E a \in 1..Len(lastPass) : \E b \in (a + 1)..Len(lastPass) :
          lastPass[a].id[2] > lastPass[b].id[2]

\* an element that isVisible must reject
Invisible(el) ==
    el.width = 0 \/ el.height = 0 \/ el.display = "none" \/ el.visibility = "hidden"

\* C7: no field of the list of a detection pass refers to an element that,
\* when the pass scanned it, had a box of zero width or zero height, a
\* computed display of none or a computed visibility of hidden.
C7_NoInvisibleField ==
    \A k \in 1..Len(lastPass) : ~Invisible(scanPage[lastPass[k].element])

\* C7: a pass over a page with an invisible element and a visible one has
\* returned the visible one only.
C7_Witness ==
    /\ call.op = "detect" /\ call.ret = detected_fields
    /\ Len(scanPage) = 2
    /\ \E i \in 1..2 : Invisible(scanPage[i]) /\ scanPage[i].attached
    /\ lastPass # <<>>

\* C8: an element that two detection passes have found, and that nothing
\* has changed in between, has the same semantic and the same score in both
\* lists.  (Between two passes of these sessions an element changes only by
\* leaving the document, and then the later pass does not find it.)
C8_SameInBothPasses ==
    \A a \in 1..Len(prevPass) : \A b \in 1..Len(lastPass) :
        prevPass[a].element = lastPass[b].element =>
            /\ prevPass[a].semantic = lastPass[b].semantic
            /\ prevPass[a].score = lastPass[b].score

\* C9: when the page adds a label or a placeholder to an element and
\* changes nothing else, the score of the element does not go down, and a
\* semantic that was not unknown does not become unknown.
C9_AddingTextNeverLowers ==
    \A i \in 2..Len(analysis) :
        /\ analysis[i].score >= analysis[i - 1].score
        /\ analysis[i - 1].semantic # "unknown" => analysis[i].semantic # "unknown"

\* C9: an element classified before any addition has been given a label
\* and a placeholder, and the added text has changed its category.
C9_Witness ==
    /\ Len(analysis) = 3
    /\ analysis[1].semantic # "unknown"
    /\ analysis[3].semantic # analysis[1].semantic
    /\ analysis[3].score > analysis[1].score

\* the field that fill_field_by_semantic_type picks for a key resolves to
\* no element of the document
NoElementFor(key) ==
    \/ NoFieldMatches(key)
    \/ ResolveElement(page, MaxByScore(MatchingFields(detected_fields, key)).attributes) = 0

\* the page observed, for the key of item j, a focus, the assignment of the
\* item's value, an input event and a change event, in this order and
\* nothing else, all on one element that is part of the document
FullWrite(j) ==
    LET seen == EventsFor(data[j].key)
    IN  /\ TypesOf(seen) = <<"focus", "assign", "input", "change">>
        /\ \A i \in 1..4 :
              /\ seen[i].element = seen[1].element
              /\ seen[i].value = data[j].value
        /\ page[seen[1].element].attached

\* C10: fill_field_by_semantic_type returns True for a key only when an
\* element of the document was resolved and the page observed focus, the
\* assignment of the value, input and change on it, in this order; when the
\* key matches no field or its field resolves to no element it returns
\* False and the page observes nothing for the key; and when it returns
\* False the page has observed either nothing for the key or the whole
\* write, whose answer an exception of the page call has replaced.
C10_TrueOnlyAfterFullWrite ==
    FillReturned =>
        \A j \in 1..Len(data) :
            /\ call.ret[j].success => FullWrite(j)
            /\ NoElementFor(data[j].key) =>
                  ~call.ret[j].success /\ EventsFor(data[j].key) = <<>>
            /\ ~call.ret[j].success => EventsFor(data[j].key) = <<>> \/ FullWrite(j)

\* C10: a fill has returned True for one key after the whole write, and
\* False for another whose write the page observed all the same.
C10_Witness ==
    /\ FillReturned
    /\ \E j \in 1..Len(data) : call.ret[j].success /\ FullWrite(j)
    /\ \E j \in 1..Len(data) : ~call.ret[j].success /\ FullWrite(j)

\* C10, as first stated: True exactly when an element was resolved, with
\* the four steps observed in order; and after False no value assigned and
\* no input or change event dispatched for the key.
C10_FalseMeansUntouched ==
    FillReturned =>
        \A j \in 1..Len(data) :
            /\ call.ret[j].success <=> ~NoElementFor(data[j].key)
            /\ call.ret[j].success => FullWrite(j)
            /\ ~call.ret[j].success => EventsFor(data[j].key) = <<>>

\* the detection pass that the last call set off has failed
PassFailed == call.pass # <<>> /\ call.pass[1].outcome = "failed"

\* C11: detect_and_highlight_fields never raises to its caller: a pass whose
\* script injection or page evaluation fails returns the empty list and leaves
\* the engine's field list empty, and the fill or suggestion call that set
\* the pass off does not fail: it returns one result per key, False for a
\* fill and an empty suggestion list for a suggestion call.
C11_DiscoveryFailureAbsorbed ==
    PassFailed =>
        /\ call.pass[1].returned = <<>>
        /\ ~call.raised
        /\ detected_fields = <<>>
        /\ Len(call.ret) = Len(data)
        /\ call.op = "fill" =>
              \A j \in 1..Len(data) : call.ret[j] = [key |-> data[j].key, success |-> FALSE]
        /\ call.op = "suggest" =>
              \A j \in 1..Len(data) :
                  call.ret[j] = [key |-> data[j].key, suggestions |-> <<>>]

\* C11: on a page with fields, the pass set off by a fill of two keys has
\* failed, and the fill has returned False for both keys.
C11_Witness ==
    /\ PassFailed
    /\ call.op = "fill"
    /\ \E i \in 1..Len(page) : isVisible(page[i])
    /\ Len(call.ret) = 2
    /\ ~call.ret[1].success /\ ~call.ret[2].success

\* a key that search_flights requires
Required(key) == key \in {"departure", "destination"}

\* C12: within one search_flights attempt every key of the mapping gets its
\* result whatever became of the keys before it, and the failure to fill a
\* key other than departure and destination never keeps the attempt from its
\* submit step; the attempt goes on to the submit step exactly when no
\* departure or destination key has failed, and otherwise ends as failed
\* without it.
C12_OnlyRequiredKeysGateSubmit ==
    call.op = "search" =>
        /\ ~call.raised
        /\ Len(call.ret) = Len(call.mapping)
        /\ \A j \in 1..Len(call.ret) : call.ret[j].key = call.mapping[j].key
        /\ call.submit # "skipped" <=>
              \A j \in 1..Len(call.ret) : Required(call.ret[j].key) => call.ret[j].success
        /\ call.submit = "skipped" => ~call.returned

\* C12: an attempt whose date key failed while departure and destination
\* were filled has gone on to the submit step and clicked.
C12_Witness ==
    /\ call.op = "search"
    /\ call.submit = "clicked" /\ call.returned
    /\ \E j \in 1..Len(call.ret) : call.ret[j].key = "date" /\ ~call.ret[j].success
    /\ \E j \in 1..Len(call.ret) : call.ret[j].key = "departure" /\ call.ret[j].success
    /\ \E j \in 1..Len(call.ret) : call.ret[j].key = "destination" /\ call.ret[j].success

\* C12, as first stated: the failure to fill any single key, departure or
\* destination included, never keeps the attempt from the submit step.
C12_AlwaysProceedsToSubmit ==
    call.op = "search" => call.submit # "skipped"

\* C13: over the fill and suggestion calls on one engine, with no detection
\* call by the caller in between, a call sets off a detection pass only if
\* no pass has completed before, also when the completed pass found no
\* fields.
C13_OneLazyPass ==
    \A j \in 2..Len(passes) :
        passes[j].lazy => \A i \in 1..(j - 1) : passes[i].outcome # "completed"

\* the types of response that answer a line
Expected(line) ==
    IF line.kind = "invalid" THEN {"error"}
    ELSE IF line.type = "ping" THEN {"pong"}
    ELSE IF line.type = "test" THEN {"test_success", "test_error"}
    ELSE IF line.type = "execute_task" THEN {"success", "error"}
    ELSE {"error"}

\* C14: after the ready signal the bridge has written, whenever it reads a
\* line or has stopped, exactly one response for every non-blank line it has
\* read (pong for ping, an error for an unknown type and for invalid JSON,
\* one success or error for execute_task), and while it handles a task at
\* most the response of that task is missing; no task is in flight when a
\* line is read, and the loop stops only when the input stream is closed.
C14_OneResponsePerLine ==
    /\ loop \in {"reading", "stopped"} =>
          /\ Len(responses) = 1 + Len(handled)
          /\ responses[1].type = "ready"
          /\ \A k \in 1..Len(handled) : responses[k + 1].type \in Expected(handled[k])
    /\ loop = "handling" => Len(responses) \in {Len(handled), Len(handled) + 1}
    /\ loop = "reading" => agent # "running"
    /\ loop = "stopped" => stdin = <<>>

\* the categories in the order of the table
CategoryOrder ==
    <<"email", "password", "name", "departure", "destination", "date", "phone", "address">>

\* the texts of the element under analysis that are present, in the order
\* name, id, placeholder, label, nearby texts
ProbeTexts ==
    SelectSeq(<<probe.name, probe.id, probe.placeholder, probe.labelText>> \o probe.siblingText,
              LAMBDA t : t # "")

\* the lower-case string of these texts, joined by single spaces
ProbeString ==
    toLowerCase(IF ProbeTexts = <<>> THEN ""
                ELSE Head(ProbeTexts)
                     \o join([k \in 1..(Len(ProbeTexts) - 1) |-> " " \o ProbeTexts[k + 1]], ""))

\* category c of the table has a pattern that occurs in the string
CategoryMatches(c) ==
    \E p \in 1..Len(semanticPatterns[c].patterns) :
        Contains(ProbeString, semanticPatterns[c].patterns[p])

\* C15: the classifier returns the first category, in the order email,
\* password, name, departure, destination, date, phone, address, that has a
\* pattern occurring in the lower-case, space-joined string of the name, id,
\* placeholder, label and nearby texts that are present; it returns unknown
\* exactly when no pattern of any category occurs in it.
C15_FirstMatchingCategory ==
    /\ \A c \in 1..Len(CategoryOrder) : semanticPatterns[c].semantic = CategoryOrder[c]
    /\ Len(semanticPatterns) = Len(CategoryOrder)
    /\ analysis # <<>> =>
          LET semantic == analysis[Len(analysis)].semantic
          IN  /\ semantic = "unknown" <=> \A c \in 1..Len(CategoryOrder) : ~CategoryMatches(c)
              /\ \A c \in 1..Len(CategoryOrder) :
                    (CategoryMatches(c) /\ \A b \in 1..(c - 1) : ~CategoryMatches(b))
                        => semantic = CategoryOrder[c]

\* C15: an element whose texts match destination and date, and no earlier
\* category, has been classified as destination.
C15_Witness ==
    /\ analysis # <<>>
    /\ analysis[Len(analysis)].semantic = "destination"
    /\ CategoryMatches(5) /\ CategoryMatches(6)
    /\ Len(ProbeTexts) >= 2

\* C16: the score of a field is min(100, 50 + 20 if a label was resolved
\* + 15 if a placeholder is present + 15 if the semantic is not unknown): 50
\* for a field with none of the three, 100 for one with all of them.
C16_ScoreFormula ==
    analysis # <<>> =>
        LET last == analysis[Len(analysis)]
            sum  == 50 + (IF probe.labelText # "" THEN 20 ELSE 0)
                       + (IF probe.placeholder # "" THEN 15 ELSE 0)
                       + (IF last.semantic # "unknown" THEN 15 ELSE 0)
        IN  /\ last.score = (IF sum > 100 THEN 100 ELSE sum)
            /\ (probe.labelText = "" /\ probe.placeholder = "" /\ last.semantic = "unknown")
                  => last.score = 50
            /\ (probe.labelText # "" /\ probe.placeholder # "" /\ last.semantic # "unknown")
                  => last.score = 100

\* C16: an element with no label, no placeholder and no known category was
\* scored 50, and with a label and a placeholder added it is scored 100.
C16_Witness ==
    /\ Len(analysis) = 3
    /\ analysis[1].score = 50 /\ analysis[1].semantic = "unknown"
    /\ analysis[3].score = 100
    /\ probe.labelText # "" /\ probe.placeholder # ""

\* the cached fields whose semantic is the key
ExactFor(key) == SelectSeq(detected_fields, LAMBDA f : f.semantic = key)

\* the cached fields whose semantic contains the key, the case of both folded
KeyInSemantic(key) ==
    SelectSeq(detected_fields, LAMBDA f : Contains(toLowerCase(f.semantic), toLowerCase(key)))

\* the cached fields whose semantic contains the key or is contained in it,
\* the case of both folded
EitherWay(key) ==
    SelectSeq(detected_fields, LAMBDA f :
        \/ Contains(toLowerCase(f.semantic), toLowerCase(key))
        \/ Contains(toLowerCase(key), toLowerCase(f.semantic)))

Candidates(key) == IF ExactFor(key) # <<>> THEN ExactFor(key) ELSE KeyInSemantic(key)

\* best is a candidate of the highest score, and of the candidates with
\* that score the one the scanner numbered first; what the page observed for
\* item j, it observed on the element that best resolves to
FirstOfHighest(best, cands, j) ==
    /\ \E k \in 1..Len(cands) : cands[k] = best
    /\ ExactFor(data[j].key) # <<>> => best.semantic = data[j].key
    /\ \A k \in 1..Len(cands) :
          /\ cands[k].score <= best.score
          /\ cands[k].score = best.score => best.id[2] <= cands[k].id[2]
    /\ call.ret[j].success => EventsFor(data[j].key) # <<>>
    /\ EventsFor(data[j].key) # <<>> =>
          EventsFor(data[j].key)[1].element = ResolveElement(page, best.attributes)

\* C18: the field the fill engine commits to for a key is the highest-scored
\* of the fields whose semantic is the key when there is one, and otherwise
\* the highest-scored of the partial matches; of candidates with the same
\* score it is the one the scanner discovered first; and the element written
\* is the one this field resolves to.
C18_BestCandidateFirstFound ==
    FillReturned =>
        \A j \in 1..Len(data) :
            Candidates(data[j].key) # <<>> =>
                FirstOfHighest(MaxByScore(MatchingFields(detected_fields, data[j].key)),
                               Candidates(data[j].key), j)

\* C18: a fill has written the value of a key that two fields of the same
\* score match, through the one of them that was discovered first.
C18_Witness ==
    /\ FillReturned
    /\ \E j \in 1..Len(data) :
          /\ call.ret[j].success
          /\ Len(Candidates(data[j].key)) >= 2
          /\ Candidates(data[j].key)[1].score = Candidates(data[j].key)[2].score
          /\ Candidates(data[j].key)[1].id # Candidates(data[j].key)[2].id

\* the first element of the document, in document order, whose attribute has
\* the text; 0 when there is none
FirstInDocument(attr, text) ==
    IF \E i \in 1..Len(page) : page[i].attached /\ page[i][attr] = text
    THEN CHOOSE i \in 1..Len(page) :
             /\ page[i].attached /\ page[i][attr] = text
             /\ \A h \in 1..(i - 1) : ~(page[h].attached /\ page[h][attr] = text)
    ELSE 0

\* the element that the lookups by id, then name, then placeholder lead to:
\* that of the first lookup that has a text to look for and finds an element
LookupOrder(a) ==
    IF a.id # "" /\ FirstInDocument("id", a.id) # 0 THEN FirstInDocument("id", a.id)
    ELSE IF a.name # "" /\ FirstInDocument("name", a.name) # 0
         THEN FirstInDocument("name", a.name)
    ELSE IF a.placeholder # "" THEN FirstInDocument("placeholder", a.placeholder)
    ELSE 0

\* item j was written to the element e, and to no other; with no element
\* (e = 0) its result is False and the page observed nothing
WrittenTo(e, j) ==
    /\ e = 0 => /\ call.ret[j] = [key |-> data[j].key, success |-> FALSE]
                /\ EventsFor(data[j].key) = <<>>
    /\ e # 0 => call.ret[j].success
    /\ call.ret[j].success => EventsFor(data[j].key) # <<>>
    /\ \A i \in 1..Len(EventsFor(data[j].key)) : EventsFor(data[j].key)[i].element = e

\* C19: to write a value the fill engine resolves the element from the
\* cached field by its id, then its name, then its placeholder, taking the
\* first lookup that finds an element, a later one only when every earlier
\* one is absent or finds nothing; when none finds an element, also when
\* the field has none of the three, the result of the key is False as for a
\* key without a matching field, nothing is observed and nothing is raised.
C19_LookupByIdNamePlaceholder ==
    call.op = "fill" =>
        /\ ~call.raised
        /\ \A j \in 1..Len(data) :
              Candidates(data[j].key) # <<>> =>
                  WrittenTo(LookupOrder(
                                MaxByScore(MatchingFields(detected_fields, data[j].key)).attributes),
                            j)

\* C19: the element with the id of the committed field has left the
\* document, and the value was written to the element found by a later
\* lookup.
C19_Witness ==
    /\ FillReturned
    /\ \E j \in 1..Len(data) :
          /\ call.ret[j].success
          /\ Candidates(data[j].key) # <<>>
          /\ MaxByScore(MatchingFields(detected_fields, data[j].key)).attributes.id # ""
          /\ \A i \in 1..Len(page) :
                page[i].attached =>
                    page[i].id # MaxByScore(MatchingFields(detected_fields,
                                                           data[j].key)).attributes.id

\* the texts of a field's label, nearby texts and placeholder, one after
\* the other with a space in between, in lower case
LabelNearbyPlaceholder(f) ==
    toLowerCase(f.context.label \o " " \o join(f.context.nearbyText, " ") \o " "
                    \o f.attributes.placeholder)

\* 0.2, in thousandths, when the key occurs in these texts
ContextBonusOf(key, f) ==
    IF Contains(LabelNearbyPlaceholder(f), toLowerCase(key)) THEN 200 ELSE 0

\* a confidence, as the engine holds it, is the number of thousandths t cut
\* off at 1, up to the rounding error of one float addition, and in [0, 1]
IsConfidence(c, t) ==
    /\ c - Float(IF t > 1000 THEN 1000 ELSE t, 0) \in {-1, 0, 1}
    /\ c >= Float(0, 0) /\ c <= Float(1000, 0)

\* score / 100 plus the bonuses, in thousandths, with 0.5 for a key that is
\* the semantic when the case of both is folded, else 0.3 for a key that the
\* semantic contains
ConfidenceOf(key, f) ==
    10 * f.score
    + (IF toLowerCase(key) = toLowerCase(f.semantic) THEN 500
       ELSE IF Contains(toLowerCase(f.semantic), toLowerCase(key)) THEN 300 ELSE 0)
    + ContextBonusOf(key, f)

\* the same with the bonuses as first stated: 0.5 for a key equal to the
\* semantic, else 0.3 when either of the two contains the other
ConfidenceEitherWayOf(key, f) ==
    10 * f.score
    + (IF key = f.semantic THEN 500
       ELSE IF \/ Contains(toLowerCase(f.semantic), toLowerCase(key))
               \/ Contains(toLowerCase(key), toLowerCase(f.semantic))
            THEN 300 ELSE 0)
    + ContextBonusOf(key, f)

\* a field whose label or placeholder is missing: None in the field data
\* when the driver hands undefined over as None
LacksText(f) == f.context.label = "" \/ f.attributes.placeholder = ""

Eligible(key) ==
    { k \in 1..Len(detected_fields) :
        AboveThreshold(calculate_mapping_confidence(key, detected_fields[k])) }

\* field a goes before field b in the suggestions for a key: by confidence
\* descending, then by detection score descending, then by discovery order
Precedes(key, a, b) ==
    LET ca == calculate_mapping_confidence(key, detected_fields[a])
        cb == calculate_mapping_confidence(key, detected_fields[b])
    IN  \/ ca > cb
        \/ /\ ca = cb
           /\ \/ detected_fields[a].score > detected_fields[b].score
              \/ /\ detected_fields[a].score = detected_fields[b].score
                 /\ detected_fields[a].id[2] < detected_fields[b].id[2]

\* how many eligible fields go before field k
RankOf(key, k) == Cardinality({ a \in Eligible(key) : Precedes(key, a, k) })

\* C21: every suggestion list that get_field_suggestions returns holds the
\* first 3 (or all, when fewer) of the fields above the threshold, ordered
\* by confidence descending, fields of equal confidence by detection score
\* descending, and fields of equal score by discovery order: no field is
\* left out while a field after it in that order is kept.
C21_TiesByScoreThenDiscovery ==
    SuggestReturned =>
        \A j \in 1..Len(call.ret) :
            LET key  == call.ret[j].key
                list == call.ret[j].suggestions
            IN  /\ Len(list) = Min(3, Cardinality(Eligible(key)))
                /\ \A k \in Eligible(key) :
                      RankOf(key, k) < 3 =>
                          list[RankOf(key, k) + 1] =
                              [ field |-> detected_fields[k],
                                confidence |->
                                    calculate_mapping_confidence(key, detected_fields[k]) ]

\* C21: a returned list of three entries has two neighbours of equal
\* confidence and different scores, and a field of the confidence of its
\* last entry was left out.
C21_Witness ==
    /\ SuggestReturned
    /\ \E j \in 1..Len(call.ret) :
          LET key  == call.ret[j].key
              list == call.ret[j].suggestions
          IN  /\ Len(list) = 3
              /\ \E i \in 1..2 : /\ list[i].confidence = list[i + 1].confidence
                                 /\ list[i].field.score > list[i + 1].field.score
              /\ \E k \in Eligible(key) :
                    /\ RankOf(key, k) >= 3
                    /\ calculate_mapping_confidence(key, detected_fields[k])
                          = list[3].confidence

\* the message of an exception holds a bot detection keyword, in any case
IsBotDetection(message) ==
    \E keyword \in {"captcha", "bot", "verification", "challenge", "blocked"} :
        Contains(toLowerCase(message), keyword)

\* C22: an exception raised while execute_task runs, the expiry of the
\* deadline apart, is answered by one response, of type error: with the
\* bot detection cause before the message when the message holds one of
\* the keywords, in any case, and with the message alone otherwise.
C22_FaultClassified ==
    thrown # NoFault =>
        /\ Len(responses) = 1
        /\ responses[1].type = "error"
        /\ responses[1].message =
              IF IsBotDetection(thrown.message)
              THEN "Bot detection encountered: " \o thrown.message
              ELSE thrown.message

\* the last call probed the submit selectors
Probing ==
    \/ call.op = "click"
    \/ call.op = "search" /\ call.submit # "skipped"

\* the selectors whose element resolves and whose click returns
Clickable == { k \in 1..Len(search_selectors) : call.controls[k] = "clicked" }

C24_DetectMapFillSubmit ==
    call.op = "search" =>
        /\ ~call.raised
        /\ Len(call.pass) = 1
        /\ call.probed # <<>> => Len(call.ret) = Len(call.mapping)
        /\ \A i \in 1..Len(events) : \A j \in (i + 1)..Len(events) :
              events[i].type = "click" => events[j].type = "click"
        /\ call.returned =>
              \E i \in 1..Len(call.clicks) : call.clicks[i].returned
        /\ call.caught => ~call.returned

\* the deadline a task asks for: its timeout, 60 without one, 90 at most
Applied(task_data) ==
    IF ~task_data.hasTimeout THEN 60
    ELSE IF task_data.timeout <= 90 THEN task_data.timeout ELSE 90

\* C25: the agent run is awaited for min(requested timeout, 90) seconds,
\* 60 being the timeout of a task that names none: the run is in flight
\* for no longer, it is cancelled when exactly that time has elapsed, and
\* the timed-out response names that number of seconds.
C25_DeadlineIsCappedTimeout ==
    /\ Applied(task) <= 90
    /\ (task.hasTimeout /\ task.timeout <= 90) => Applied(task) = task.timeout
    /\ agent = "running" => elapsed <= Applied(task)
    /\ agent \in {"cancelled", "abandoned"} =>
          /\ elapsed = Applied(task)
          /\ responses[Len(responses)].message =
                "Task timed out after " \o ToString(Applied(task))
                    \o " seconds. Site may have bot detection or be unresponsive."

\* C25: the run of a task that names no timeout has been cancelled after
\* 60 seconds, and the response says so.
C25_Witness ==
    /\ agent = "cancelled" /\ ~task.hasTimeout
    /\ elapsed = 60
    /\ StartsWith(responses[Len(responses)].message, "Task timed out after 60 seconds")

\* what the last completed pass of a history of passes returned
RECURSIVE LastCompleted(_)
LastCompleted(history) ==
    IF history = <<>> THEN <<>>
    ELSE IF history[Len(history)].outcome = "completed" THEN history[Len(history)].returned
         ELSE LastCompleted(SubSeq(history, 1, Len(history) - 1))

\* C26: a detection pass that fails returns an empty list, and the cached
\* field list is always what the last completed pass returned: a failed
\* pass leaves it alone.  A fill that follows reports success only for a
\* key with a field in that list, and a suggestion call suggests fields of
\* that list only.
C26_FailedPassKeepsCache ==
    /\ \A k \in 1..Len(passes) : passes[k].outcome = "failed" => passes[k].returned = <<>>
    /\ (call.op = "detect" /\ PassFailed) => call.ret = <<>>
    /\ detected_fields = LastCompleted(passes)
    /\ (call.op = "fill" /\ ~call.raised) =>
          \A j \in 1..Len(call.ret) :
              call.ret[j].success =>
                  MatchingFields(LastCompleted(passes), call.ret[j].key) # <<>>
    /\ SuggestReturned =>
          \A j \in 1..Len(call.ret) : \A i \in 1..Len(call.ret[j].suggestions) :
              \E k \in 1..Len(LastCompleted(passes)) :
                  call.ret[j].suggestions[i].field = LastCompleted(passes)[k]

\* C26: a pass has found fields, the caller's next pass has failed, and the
\* fill after it has filled a field of the first pass.
C26_Witness ==
    /\ Len(passes) = 2
    /\ passes[1].outcome = "completed" /\ passes[1].returned # <<>>
    /\ passes[2].outcome = "failed" /\ ~passes[2].lazy
    /\ call.op = "fill" /\ \E j \in 1..Len(call.ret) : call.ret[j].success
    /\ detected_fields = passes[1].returned

\* the element that the last completed pass recorded for a field of its list
ElementOf(field) ==
    lastPass[CHOOSE k \in 1..Len(lastPass) : lastPass[k].id = field.id].element

\* the document is as the last completed pass found it, the values of its
\* elements apart
SameDocument ==
    /\ Len(page) = Len(scanPage)
    /\ \A i \in 1..Len(page) :
          [page[i] EXCEPT !.value = ""] = [scanPage[i] EXCEPT !.value = ""]

\* C27: when a fill reports True for a key on a page that is as the
\* detection pass found it, the element the page observed the write on is
\* the element that the pass recorded for the selected best field.
C27_WritesSelectedField ==
    (FillReturned /\ SameDocument) =>
        \A j \in 1..Len(data) :
            call.ret[j].success =>
                \A i \in 1..Len(EventsFor(data[j].key)) :
                    EventsFor(data[j].key)[i].element =
                        ElementOf(MaxByScore(MatchingFields(detected_fields, data[j].key)))

====
